---------------------------- MODULE Spec2Model ----------------------------
(***************************************************************************)
(* A model of oranc: the key <-> tag codec (convert.rs), the registry      *)
(* adapter (registry.rs) and the pusher (push.rs).                         *)
(*                                                                         *)
(* Strings are sequences of Unicode scalar values (natural numbers), byte  *)
(* strings are sequences of 0..255.  A Result is Ok(v) or Err(e).          *)
(***************************************************************************)
EXTENDS Integers, Sequences, FiniteSets, TLC

VARIABLES
    cpc,        \* codec run: "key" | "tag" | "encoded" | "tags" | "done"
    input,      \* codec run: the key or the tag handed to the operation
    options,    \* codec run: the EncodingOptions of the call
    encoded,    \* codec run: what encode / key_to_tag returned
    decoded,    \* codec run: what decode / tag_to_key returned
    ropts,      \* RegistryOptions of the registry context(s)
    store,      \* the registry: tag -> manifest, of the tags that exist
    call,       \* per caller: the running get_layer_info / put, its locals,
                \* and the pulls and pushes it has issued, in order, and
                \* the answers to the pushes
    failed,     \* pusher: the shared AtomicBool
    filtered,   \* pusher: ids whose push_one future is not yet created
    task,       \* pusher: per id, the push_one future's position and data
    popts,      \* pusher: the PushOptions the pusher reads itself
    db,         \* pusher: the Nix DB, per id the PathInfo of the path
    plan,       \* pusher: push before the tasks: closure and filter
    pushret,    \* pusher: what push returned, or NoValue while running
    srv         \* server: one request, from its headers to its response

codecVars == <<cpc, input, options, encoded, decoded>>
regVars   == <<ropts, store, call>>
pushVars  == <<failed, filtered, task, popts, db, plan, pushret>>
vars      == <<cpc, input, options, encoded, decoded,
               ropts, store, call,
               failed, filtered, task, popts, db, plan, pushret, srv>>

NoValue == [none |-> TRUE]
Some(v) == [some |-> v]
Unit    == [unit |-> TRUE]
Ok(v)   == [ok |-> TRUE, val |-> v]
Err(e)  == [ok |-> FALSE, err |-> e]

--------------------------------------------------------------------------
(* Bounds of the model.                                                    *)

MaxKeyLen    == 3   \* keys enumerated exhaustively up to this length
MaxTagLen    == 3   \* input tags enumerated exhaustively up to this length
MaxFallbacks == 2   \* length of --fallback-encodings
MaxRetry     == 3   \* --max-retry ranges over 0..MaxRetry
MaxOps       == 2   \* registry operations one client issues in a run
MaxIds       == 2   \* store paths (DB ids) the pusher is given
MaxParallel  == 2   \* --parallel ranges over 1..MaxParallel
MaxSigs      == 2   \* signatures in the sigs of a DB row
MaxNarSize   == 2   \* nar_size of a DB row ranges over 1..MaxNarSize
MaxUpstreams == 2   \* length of --upstream

--------------------------------------------------------------------------
(* convert.rs: the custom encoding.                                         *)

\* convert.rs:72-73, the OCI limit the doc comment of CustomEncoding quotes
TagMaxChars == 128

\* CustomEncoding::new: '0'..='9', 'a'..='z', 'A'..='Z', '-', '.'
SymbolTable ==
    [i \in 1..10 |-> 47 + i] \o [i \in 1..26 |-> 96 + i]
        \o [i \in 1..26 |-> 64 + i] \o <<45, 46>>

Base == Len(SymbolTable)

\* reverse_table.get(c): the index of c in the symbol table, or -1 for none
ReverseTable(c) ==
    IF \E i \in 1..Base : SymbolTable[i] = c
    THEN (CHOOSE i \in 1..Base : SymbolTable[i] = c) - 1
    ELSE -1

IsAlnum(c) == (c >= 97 /\ c <= 122) \/ (c >= 65 /\ c <= 90) \/ (c >= 48 /\ c <= 57)
IsDashDot(c) == c = 45 \/ c = 46
Underscore == 95

\* the while loop of encode_char: the digits of n, most significant first
\* (char_code is built least significant first and reversed)
\* faulty variant: char_code is not reversed
RECURSIVE CharCodeNotReversed(_)
CharCodeNotReversed(n) ==
    IF n = 0 THEN <<>>
    ELSE <<SymbolTable[(n % Base) + 1]>> \o CharCodeNotReversed(n \div Base)

RECURSIVE CharCode(_)
CharCode(n) ==
    IF n = 0 THEN <<>>
    ELSE CharCode(n \div Base) \o <<SymbolTable[(n % Base) + 1]>>

\* faulty variant: the closing marker is not pushed
EncodeCharNoClosingMarker(c) == <<Underscore>> \o CharCode(c)

encode_char(c) == <<Underscore>> \o CharCode(c) \o <<Underscore>>

\* faulty variant: `first` is never cleared
RECURSIVE EncodeLoopFirstKept(_, _, _)
EncodeLoopFirstKept(key, i, first) ==
    IF i > Len(key) THEN <<>>
    ELSE LET c == key[i]
             out == IF IsAlnum(c) THEN <<c>>
                    ELSE IF IsDashDot(c)
                         THEN (IF first THEN encode_char(c) ELSE <<c>>)
                         ELSE encode_char(c)
         IN out \o EncodeLoopFirstKept(key, i + 1, first)

RECURSIVE EncodeLoop(_, _, _)
EncodeLoop(key, i, first) ==
    IF i > Len(key) THEN <<>>
    ELSE LET c == key[i]
             out == IF IsAlnum(c) THEN <<c>>
                    ELSE IF IsDashDot(c)
                         THEN (IF first THEN encode_char(c) ELSE <<c>>)
                         ELSE encode_char(c)
         IN out \o EncodeLoop(key, i + 1, FALSE)

\* faulty variant: `first` starts false
EncodeFirstUnset(key) == EncodeLoop(key, 1, FALSE)

encode(key) == EncodeLoop(key, 1, TRUE)

\* A u32 in decode_char.  Values of 2^31 and more are kept as Big: of such a
\* value the code only asks whether another checked_mul overflows (it does)
\* and whether it is a char (it is not).
Big == -2
Overflow == -1
TwoTo25 == 33554432
TwoTo26 == 67108864
MaxScalar == 1114111
SurrogateLo == 55296
SurrogateHi == 57343

checked_mul(n, b) ==
    IF n = Big THEN Overflow
    ELSE IF n >= TwoTo26 THEN Overflow
    ELSE IF n >= TwoTo25 THEN Big
    ELSE n * b

\* n is a product by 64 (or 0) here, so adding a digit < 64 never overflows
checked_add(n, d) == IF n = Big THEN Big ELSE n + d

\* char::try_from(u32)
IsChar(n) ==
    /\ n # Big
    /\ n <= MaxScalar
    /\ ~(n >= SurrogateLo /\ n <= SurrogateHi)

RECURSIVE DecodeCharLoop(_, _, _)
DecodeCharLoop(enc, i, n) ==
    IF i > Len(enc) THEN n
    ELSE LET m == checked_mul(n, Base)
             d == ReverseTable(enc[i])
         IN IF m = Overflow \/ d < 0 THEN Overflow
            ELSE DecodeCharLoop(enc, i + 1, checked_add(m, d))

\* faulty variant: the u32 is taken as a char without try_into
DecodeCharUnchecked(enc) ==
    LET n == DecodeCharLoop(enc, 1, 0)
    IN IF n # Overflow /\ n # Big THEN n ELSE -1

\* decode_char: Some(char) as the scalar value, None as -1
decode_char(enc) ==
    LET n == DecodeCharLoop(enc, 1, 0)
    IN IF n # Overflow /\ IsChar(n) THEN n ELSE -1

\* position of the next '_' at or after i, or 0
NextMarker(tag, i) ==
    LET ms == {j \in i..Len(tag) : tag[j] = Underscore}
    IN IF ms = {} THEN 0 ELSE CHOOSE j \in ms : \A k \in ms : j <= k

InvalidTag(tag) == [kind |-> "InvalidTag", tag |-> tag]

\* last index of the run of characters from i that the first arm pushes unchanged
PlainRunEnd(tag, i) ==
    LET stops == {j \in i..Len(tag) : ~(IsAlnum(tag[j]) \/ IsDashDot(tag[j]))}
    IN IF stops = {} THEN Len(tag)
       ELSE (CHOOSE j \in stops : \A k \in stops : j <= k) - 1

RECURSIVE DecodeLoop(_, _, _)
DecodeLoop(tag, i, result) ==
    IF i > Len(tag) THEN Ok(result)
    ELSE LET c == tag[i] IN
         IF IsAlnum(c) \/ IsDashDot(c)
         THEN LET j == PlainRunEnd(tag, i)
              IN DecodeLoop(tag, j + 1, result \o SubSeq(tag, i, j))
         ELSE IF c = Underscore
         THEN LET j == NextMarker(tag, i + 1) IN
              IF j = 0 THEN Err(InvalidTag(tag))
              ELSE LET ch == decode_char(SubSeq(tag, i + 1, j - 1)) IN
                   IF ch < 0 THEN Err(InvalidTag(tag))
                   ELSE DecodeLoop(tag, j + 1, Append(result, ch))
         ELSE Err(InvalidTag(tag))

decode(tag) == DecodeLoop(tag, 1, <<>>)

--------------------------------------------------------------------------
(* convert.rs: the base32-dnssec encoding of the key's UTF-8 bytes.         *)

\* str::as_bytes of one scalar value
Utf8Char(c) ==
    IF c < 128 THEN <<c>>
    ELSE IF c < 2048 THEN <<192 + (c \div 64), 128 + (c % 64)>>
    ELSE IF c < 65536
         THEN <<224 + (c \div 4096), 128 + ((c \div 64) % 64), 128 + (c % 64)>>
    ELSE <<240 + (c \div 262144), 128 + ((c \div 4096) % 64),
           128 + ((c \div 64) % 64), 128 + (c % 64)>>

\* str::as_bytes of key[lo..hi]
RECURSIVE BytesOf(_, _, _)
BytesOf(key, lo, hi) ==
    IF lo > hi THEN <<>>
    ELSE IF lo = hi THEN Utf8Char(key[lo])
    ELSE BytesOf(key, lo, (lo + hi) \div 2)
             \o BytesOf(key, ((lo + hi) \div 2) + 1, hi)

as_bytes(key) == BytesOf(key, 1, Len(key))

IsCont(b) == b >= 128 /\ b <= 191

\* String::from_utf8: Ok(scalar values), or Err(FromUtf8) on an ill-formed
\* sequence (overlong forms, surrogates and values above 10FFFF included)
RECURSIVE Utf8Loop(_, _, _)
Utf8Loop(bs, i, result) ==
    LET n == Len(bs)
        b0 == bs[i]
        b1 == bs[i + 1]
        b2 == bs[i + 2]
        b3 == bs[i + 3]
        bad == Err([kind |-> "FromUtf8"])
    IN IF i > n THEN Ok(result)
       ELSE IF b0 < 128 THEN Utf8Loop(bs, i + 1, Append(result, b0))
       ELSE IF b0 >= 194 /\ b0 <= 223
       THEN IF i + 1 <= n /\ IsCont(b1)
            THEN Utf8Loop(bs, i + 2, Append(result, (b0 - 192) * 64 + (b1 - 128)))
            ELSE bad
       ELSE IF b0 >= 224 /\ b0 <= 239
       THEN IF /\ i + 2 <= n
               /\ IsCont(b1) /\ IsCont(b2)
               /\ (b0 = 224 => b1 >= 160)
               /\ (b0 = 237 => b1 <= 159)
            THEN Utf8Loop(bs, i + 3, Append(result,
                     (b0 - 224) * 4096 + (b1 - 128) * 64 + (b2 - 128)))
            ELSE bad
       ELSE IF b0 >= 240 /\ b0 <= 244
       THEN IF /\ i + 3 <= n
               /\ IsCont(b1) /\ IsCont(b2) /\ IsCont(b3)
               /\ (b0 = 240 => b1 >= 144)
               /\ (b0 = 244 => b1 <= 143)
            THEN Utf8Loop(bs, i + 4, Append(result,
                     (b0 - 240) * 262144 + (b1 - 128) * 4096
                         + (b2 - 128) * 64 + (b3 - 128)))
            ELSE bad
       ELSE bad

from_utf8(bs) == Utf8Loop(bs, 1, <<>>)

\* BASE32_DNSSEC: "0123456789abcdefghijklmnopqrstuv", no padding
Base32Symbols == [i \in 1..10 |-> 47 + i] \o [i \in 1..22 |-> 96 + i]

\* the value of a symbol, upper case translated to lower case; -1 for none
Base32Value(c) ==
    IF c >= 48 /\ c <= 57 THEN c - 48
    ELSE IF c >= 97 /\ c <= 118 THEN c - 87
    ELSE IF c >= 65 /\ c <= 86 THEN c - 55
    ELSE -1

RECURSIVE Pow2(_)
Pow2(n) == IF n = 0 THEN 1 ELSE 2 * Pow2(n - 1)

\* bit b (from 0, most significant bit first) of a sequence of w-bit
\* values, 0 past its end
BitAt(vs, w, b) ==
    IF b \div w >= Len(vs) THEN 0
    ELSE (vs[(b \div w) + 1] \div Pow2(w - 1 - (b % w))) % 2

\* the n bits from bit b on, as a number
BitsAt(vs, w, b, n) ==
    LET bit(j) == BitAt(vs, w, b + j) * Pow2(n - 1 - j)
    IN IF n = 5 THEN bit(0) + bit(1) + bit(2) + bit(3) + bit(4)
       ELSE bit(0) + bit(1) + bit(2) + bit(3) + bit(4) + bit(5) + bit(6) + bit(7)

\* BASE32_DNSSEC.encode: 5 bits per symbol, most significant bit first,
\* the last symbol padded with zero bits
Base32Encode(bs) ==
    [k \in 1..((8 * Len(bs) + 4) \div 5) |->
        Base32Symbols[BitsAt(bs, 8, 5 * (k - 1), 5) + 1]]

\* BASE32_DNSSEC.decode: Err(Decode) on a length no encoding has, on a
\* symbol outside the alphabet and on non-zero trailing bits
Base32Decode(tag) ==
    LET n == Len(tag)
        vs == [k \in 1..n |-> Base32Value(tag[k])]
        nbytes == (5 * n) \div 8
    IN IF (n % 8) \in {1, 3, 6} THEN Err([kind |-> "Decode"])
       ELSE IF \E k \in 1..n : vs[k] < 0 THEN Err([kind |-> "Decode"])
       ELSE IF \E b \in (8 * nbytes)..(5 * n - 1) : BitAt(vs, 5, b) # 0
       THEN Err([kind |-> "Decode"])
       ELSE Ok([j \in 1..nbytes |-> BitsAt(vs, 5, 8 * (j - 1), 8)])

--------------------------------------------------------------------------
(* convert.rs: TagEncoding and EncodingOptions.                             *)

TagEncodings == {"Custom", "Base32DNSSEC"}

TagEncoding_key_to_tag(e, key) ==
    IF e = "Custom" THEN encode(key) ELSE Base32Encode(as_bytes(key))

TagEncoding_tag_to_key(e, tag) ==
    IF e = "Custom" THEN decode(tag)
    ELSE LET bytes == Base32Decode(tag)
         IN IF bytes.ok THEN from_utf8(bytes.val) ELSE bytes

\* EncodingOptions::key_to_tag: (main, fallbacks)
key_to_tag(opts, key) ==
    [main |-> TagEncoding_key_to_tag(opts.tag_encoding, key),
     fallbacks |-> [i \in 1..Len(opts.fallback_encodings) |->
                       TagEncoding_key_to_tag(opts.fallback_encodings[i], key)]]

\* the for loop of EncodingOptions::tag_to_key over encodings[i..]
RECURSIVE TagToKeyLoop(_, _, _, _)
TagToKeyLoop(encodings, tag, i, errors) ==
    IF i > Len(encodings) THEN Err([kind |-> "TagToKey", errors |-> errors])
    ELSE LET r == TagEncoding_tag_to_key(encodings[i], tag)
         IN IF r.ok THEN r
            ELSE TagToKeyLoop(encodings, tag, i + 1, Append(errors, r.err))

\* faulty variant: the fallbacks are tried before the main encoding
TagToKeyFallbacksFirst(opts, tag) ==
    TagToKeyLoop(opts.fallback_encodings \o <<opts.tag_encoding>>, tag, 1, <<>>)

\* faulty variant: only the main encoding is tried
TagToKeyMainOnly(opts, tag) ==
    TagToKeyLoop(<<opts.tag_encoding>>, tag, 1, <<>>)

tag_to_key(opts, tag) ==
    TagToKeyLoop(<<opts.tag_encoding>> \o opts.fallback_encodings, tag, 1, <<>>)

--------------------------------------------------------------------------
(* The codec runs: one call of the tag codec on one input.                  *)

SeqsUpTo(S, n) == UNION {[1..m -> S] : m \in 0..n}
Rep(c, n) == [i \in 1..n |-> c]

\* NUL, '-', '_', 'a', U+10FFFF
KeyAlphabet == {0, 45, 95, 97, 1114111}

\* keys whose encoding is just below and just above the tag limit: U+10FFFF
\* takes 6 characters, 'a' one
LongKeys ==
    {Rep(1114111, TagMaxChars \div 6) \o Rep(97, n) : n \in 0..3}
        \cup {Rep(1114111, (TagMaxChars \div 6) + 1)}

\* "..", "//", "._test-<U+6D4B><U+8BD5>_.<U+6D4B><U+8BD5>", "nar/a.nar.zst",
\* "a.narinfo", "nix-cache-info"
ExampleKeys ==
    {<<46, 46>>, <<47, 47>>,
     <<46, 95, 116, 101, 115, 116, 45, 27979, 35797, 95, 46, 27979, 35797>>,
     <<110, 97, 114, 47, 97, 46, 110, 97, 114, 46, 122, 115, 116>>,
     <<97, 46, 110, 97, 114, 105, 110, 102, 111>>,
     <<110, 105, 120, 45, 99, 97, 99, 104, 101, 45, 105, 110, 102, 111>>}

Keys == SeqsUpTo(KeyAlphabet, MaxKeyLen) \cup LongKeys \cup ExampleKeys

\* '_', '-', '!', 'c', '1', 'v'
TagAlphabet == {95, 45, 33, 99, 49, 118}

\* "_1v_", "_dw0_" (a surrogate), "_4g00_" (0x110000), "_200000_" (2^31),
\* "_2000000_" (2^37), "_400000_" (2^32), "C4", "bs", "ccq0", "vs", "__"
ExtraTags ==
    {<<95, 49, 118, 95>>, <<95, 100, 119, 48, 95>>, <<95, 52, 103, 48, 48, 95>>,
     <<95, 50, 48, 48, 48, 48, 48, 95>>, <<95, 50, 48, 48, 48, 48, 48, 48, 95>>,
     <<95, 52, 48, 48, 48, 48, 48, 95>>, <<67, 52>>, <<98, 115>>,
     <<99, 99, 113, 48>>, <<118, 115>>, <<95, 95>>}

Tags == SeqsUpTo(TagAlphabet, MaxTagLen) \cup ExtraTags

EncodingOptionsSet ==
    [tag_encoding : TagEncodings,
     fallback_encodings : SeqsUpTo(TagEncodings, MaxFallbacks)]

\* clap's defaults: --tag-encoding custom, no --fallback-encodings
DefaultEncodingOptions ==
    [tag_encoding |-> "Custom", fallback_encodings |-> <<>>]

CodecInit ==
    /\ \/ cpc = "key" /\ input \in Keys
       \/ cpc = "tag" /\ input \in Tags
    /\ options = DefaultEncodingOptions
    /\ encoded = NoValue
    /\ decoded = NoValue

\* CUSTOM_ENCODING.encode(key)
Encode ==
    /\ cpc = "key"
    /\ encoded' = encode(input)
    /\ cpc' = "encoded"
    /\ UNCHANGED <<input, options, decoded>>

\* CUSTOM_ENCODING.decode(&encoded), as test::custom_encode_decode calls it
DecodeEncoded ==
    /\ cpc = "encoded"
    /\ decoded' = [tag |-> encoded, res |-> decode(encoded)]
    /\ cpc' = "roundtrip"
    /\ UNCHANGED <<input, options, encoded>>

\* CUSTOM_ENCODING.decode(tag)
Decode ==
    /\ cpc = "tag"
    /\ decoded' = [tag |-> input, res |-> decode(input)]
    /\ cpc' = "decoded"
    /\ UNCHANGED <<input, options, encoded>>

\* EncodingOptions::key_to_tag(key)
KeyToTag(opts) ==
    /\ cpc = "key"
    /\ options' = opts
    /\ encoded' = key_to_tag(opts, input)
    /\ cpc' = "tags"
    /\ UNCHANGED <<input, decoded>>

\* EncodingOptions::tag_to_key on the i-th tag key_to_tag returned
\* (1 is the main tag)
TagToKeyOfTag(i) ==
    /\ cpc = "tags"
    /\ LET tags == <<encoded.main>> \o encoded.fallbacks
       IN /\ i \in 1..Len(tags)
          /\ decoded' = [tag |-> tags[i], res |-> tag_to_key(options, tags[i])]
    /\ cpc' = "back"
    /\ UNCHANGED <<input, options, encoded>>

\* EncodingOptions::tag_to_key(tag)
TagToKey(opts) ==
    /\ cpc = "tag"
    /\ options' = opts
    /\ decoded' = [tag |-> input, res |-> tag_to_key(opts, input)]
    /\ cpc' = "key_of_tag"
    /\ UNCHANGED <<input, encoded>>

--------------------------------------------------------------------------
(* registry.rs: the registry adapter.                                       *)

LAYER_MEDIA_TYPE == "application/octet-stream"
CONTENT_TYPE_ANNOTATION == "com.linyinfeng.oranc.content.type"

\* Reference::with_tag(registry, repository, tag)
build_ref(location, tag) ==
    [registry |-> location.registry, repository |-> location.repository,
     tag |-> tag]

\* OciLocation::reference: (main, fallback_refs)
reference(location, encoding_options) ==
    LET tags == key_to_tag(encoding_options, location.key)
    IN [main |-> build_ref(location, tags.main),
        fallbacks |-> [i \in 1..Len(tags.fallbacks) |->
                          build_ref(location, tags.fallbacks[i])]]

\* OciLocation::references_merged
references_merged(location, encoding_options) ==
    LET r == reference(location, encoding_options)
    IN <<r.main>> \o r.fallbacks

\* faulty variant: put takes the first fallback reference when there is one
PutFirstFallback(location, encoding_options) ==
    LET r == reference(location, encoding_options)
    IN IF r.fallbacks = <<>> THEN r.main ELSE r.fallbacks[1]

\* the reference put pushes to: `let (reference, _fallbacks) = ...`
put_reference(location, encoding_options) ==
    reference(location, encoding_options).main

\* the image put builds from an item: one layer, annotated with the content
\* type; the image annotated with the key
image_manifest(location, item) ==
    [layers |-> <<[media_type |-> LAYER_MEDIA_TYPE,
                   annotations |-> Some({<<CONTENT_TYPE_ANNOTATION,
                       IF item.content_type = NoValue
                       THEN "application/octet-stream"
                       ELSE item.content_type.some>>}),
                   digest |-> <<"sha256", item.data>>]>>,
     key |-> Some(location.key)]

\* annotations.get(k): the values annotated under k
AnnotationGet(annotations, k) == {kv[2] : kv \in {x \in annotations : x[1] = k}}

\* faulty variant: the annotations are looked at before the media type
LayerInfoAnnotationsFirst(pull_result, errors) ==
    IF pull_result = NoValue
    THEN (IF errors = <<>> THEN Ok(NoValue)
          ELSE Err([kind |-> "RetryAllFails", errors |-> errors]))
    ELSE LET manifest == pull_result.manifest
             layer == manifest.layers[1]
         IN IF Len(manifest.layers) # 1
            THEN Err([kind |-> "InvalidLayerCount", n |-> Len(manifest.layers)])
            ELSE IF layer.annotations = NoValue
            THEN Err([kind |-> "NoLayerAnnotations"])
            ELSE IF layer.media_type # LAYER_MEDIA_TYPE
            THEN Err([kind |-> "InvalidLayerMediaType"])
            ELSE IF AnnotationGet(layer.annotations.some, CONTENT_TYPE_ANNOTATION) = {}
            THEN Err([kind |-> "NoLayerAnnotationKey"])
            ELSE Ok(Some([reference |-> pull_result.reference,
                          digest |-> layer.digest,
                          content_type |-> CHOOSE v \in AnnotationGet(
                              layer.annotations.some, CONTENT_TYPE_ANNOTATION) : TRUE]))

\* get_layer_info after the loops: the match on pull_result and the checks
\* of the manifest
layer_info(pull_result, errors) ==
    IF pull_result = NoValue
    THEN (IF errors = <<>> THEN Ok(NoValue)
          ELSE Err([kind |-> "RetryAllFails", errors |-> errors]))
    ELSE LET manifest == pull_result.manifest
             layer == manifest.layers[1]
         IN IF Len(manifest.layers) # 1
            THEN Err([kind |-> "InvalidLayerCount", n |-> Len(manifest.layers)])
            ELSE IF layer.media_type # LAYER_MEDIA_TYPE
            THEN Err([kind |-> "InvalidLayerMediaType"])
            ELSE IF layer.annotations = NoValue
            THEN Err([kind |-> "NoLayerAnnotations"])
            ELSE IF AnnotationGet(layer.annotations.some, CONTENT_TYPE_ANNOTATION) = {}
            THEN Err([kind |-> "NoLayerAnnotationKey"])
            ELSE Ok(Some([reference |-> pull_result.reference,
                          digest |-> layer.digest,
                          content_type |-> CHOOSE v \in AnnotationGet(
                              layer.annotations.some, CONTENT_TYPE_ANNOTATION) : TRUE]))

\* `for attempt in 1..max_retry`: whether the body runs for this attempt
InRetryRange(attempt, max_retry) == attempt < max_retry

\* `if ref_errors.len() == max_retry`
AllRetriesFailed(ref_errors, max_retry) == Len(ref_errors) = max_retry

\* the answers of the registry to a manifest pull that get_layer_info tells
\* apart: the manifest, ImageManifestNotFoundError, a RegistryError with
\* its error codes, any other error
IsNotFound(resp) ==
    \/ resp.kind = "ImageManifestNotFoundError"
    \/ /\ resp.kind = "RegistryError"
       /\ \A i \in 1..Len(resp.codes) : resp.codes[i] = "ManifestUnknown"

\* the three ways get_layer_info's match treats an answer
Answer(resp) ==
    IF resp.kind = "Ok" THEN "ok"
    ELSE IF IsNotFound(resp) THEN "not_found" ELSE "error"

PullFailures ==
    {[kind |-> "ImageManifestNotFoundError"],
     [kind |-> "RegistryError", codes |-> <<"ManifestUnknown">>],
     [kind |-> "RegistryError", codes |-> <<"ManifestUnknown", "Denied">>],
     [kind |-> "ServerError"]}

\* what the registry may answer to a pull of ref: the manifest when the tag
\* exists, not-found when it does not, a failure at any time
PullResponses(ref) ==
    IF ref.tag \in DOMAIN store
    THEN {[kind |-> "Ok", manifest |-> store[ref.tag]]}
             \cup {r \in PullFailures : ~IsNotFound(r)}
    ELSE PullFailures

IdleCall ==
    [op |-> "none", pc |-> "idle", location |-> NoValue, item |-> NoValue,
     references |-> <<>>, idx |-> 1, attempt |-> 1, ref_errors |-> <<>>,
     errors |-> <<>>, pull_result |-> NoValue, ret |-> NoValue, ops |-> 0,
     pulls |-> <<>>, pushes |-> <<>>, answers |-> <<>>]

\* get_layer_info, up to the loops
GetLayerInfo(p, location) ==
    /\ call[p].pc \in {"idle", "done"}
    /\ call' = [call EXCEPT ![p] =
           IF ropts.max_retry < 1
           THEN [IdleCall EXCEPT !.op = "get", !.pc = "done",
                    !.location = location, !.ops = call[p].ops + 1,
                    !.ret = Err([kind |-> "InvalidMaxRetry"])]
           ELSE [IdleCall EXCEPT !.op = "get", !.pc = "pull",
                    !.location = location, !.ops = call[p].ops + 1,
                    !.references =
                        references_merged(location, ropts.encoding_options)]]
    /\ UNCHANGED <<ropts, store>>

\* the end of the 'retries loop of one reference, and the step to the next
AfterRetries(c) ==
    [c EXCEPT !.errors = IF AllRetriesFailed(c.ref_errors, ropts.max_retry)
                         THEN c.errors \o c.ref_errors ELSE c.errors,
              !.ref_errors = <<>>, !.idx = c.idx + 1, !.attempt = 1]

\* faulty variant: no `break 'fallbacks` after a pull that succeeded
AfterPullNoBreak(c, ref, resp) ==
    IF resp.kind = "Ok"
    THEN [c EXCEPT !.pull_result = [reference |-> ref, manifest |-> resp.manifest],
                   !.idx = c.idx + 1, !.attempt = 1]
    ELSE IF IsNotFound(resp) THEN AfterRetries(c)
    ELSE [c EXCEPT !.ref_errors = Append(c.ref_errors, resp.kind),
                   !.attempt = c.attempt + 1]

\* faulty variant: a not-found answer does not `break 'retries`
AfterPullNotFoundRetried(c, ref, resp) ==
    IF resp.kind = "Ok"
    THEN [c EXCEPT !.pc = "pulled",
                   !.pull_result = [reference |-> ref, manifest |-> resp.manifest]]
    ELSE IF IsNotFound(resp) THEN [c EXCEPT !.attempt = c.attempt + 1]
    ELSE [c EXCEPT !.ref_errors = Append(c.ref_errors, resp.kind),
                   !.attempt = c.attempt + 1]

\* the match on the result of client.pull_image_manifest
AfterPull(c, ref, resp) ==
    IF resp.kind = "Ok"
    THEN [c EXCEPT !.pc = "pulled",
                   !.pull_result = [reference |-> ref, manifest |-> resp.manifest]]
    ELSE IF IsNotFound(resp) THEN AfterRetries(c)
    ELSE [c EXCEPT !.ref_errors = Append(c.ref_errors, resp.kind),
                   !.attempt = c.attempt + 1]

\* one pass of the 'retries loop: client.pull_image_manifest, and the match
PullManifest(p, resp) ==
    LET c == call[p]
        ref == c.references[c.idx]
        pulled == [c EXCEPT !.pulls = Append(c.pulls,
                      [idx |-> c.idx, reference |-> ref,
                       answer |-> Answer(resp)])]
    IN /\ c.op = "get" /\ c.pc = "pull"
       /\ c.idx <= Len(c.references)
       /\ InRetryRange(c.attempt, ropts.max_retry)
       /\ resp \in PullResponses(ref)
       /\ call' = [call EXCEPT ![p] = AfterPull(pulled, ref, resp)]
       /\ UNCHANGED <<ropts, store>>

\* the 'retries loop runs out of attempts
RetriesEnd(p) ==
    LET c == call[p]
    IN /\ c.op = "get" /\ c.pc = "pull"
       /\ c.idx <= Len(c.references)
       /\ ~InRetryRange(c.attempt, ropts.max_retry)
       /\ call' = [call EXCEPT ![p] = AfterRetries(c)]
       /\ UNCHANGED <<ropts, store>>

\* get_layer_info returns
GetLayerInfoReturn(p) ==
    LET c == call[p]
    IN /\ c.op = "get"
       /\ \/ c.pc = "pulled"
          \/ c.pc = "pull" /\ c.idx > Len(c.references)
       /\ call' = [call EXCEPT ![p] =
              [c EXCEPT !.pc = "done",
                        !.ret = layer_info(c.pull_result, c.errors)]]
       /\ UNCHANGED <<ropts, store>>

\* put, up to the loop
Put(p, location, item) ==
    /\ call[p].pc \in {"idle", "done"}
    /\ call' = [call EXCEPT ![p] =
           IF ropts.max_retry < 1
           THEN [IdleCall EXCEPT !.op = "put", !.pc = "done",
                    !.location = location, !.item = item,
                    !.ops = call[p].ops + 1,
                    !.ret = Err([kind |-> "InvalidMaxRetry"])]
           ELSE [IdleCall EXCEPT !.op = "put", !.pc = "push",
                    !.location = location, !.item = item,
                    !.ops = call[p].ops + 1,
                    !.references =
                        <<put_reference(location, ropts.encoding_options)>>]]
    /\ UNCHANGED <<ropts, store>>

\* one pass of put's loop with dry_run: return Ok
PutDryRun(p) ==
    LET c == call[p]
    IN /\ c.op = "put" /\ c.pc = "push"
       /\ InRetryRange(c.attempt, ropts.max_retry)
       /\ ropts.dry_run
       /\ call' = [call EXCEPT ![p] = [c EXCEPT !.pc = "done", !.ret = Ok(Unit)]]
       /\ UNCHANGED <<ropts, store>>

\* the errors client.push may return
PushFailures == {"ServerError", "AuthenticationFailure"}

\* faulty variant: the error is put in front
RecordErrorFirst(errors, e) == <<e>> \o errors

\* errors.push(e)
RecordError(errors, e) == Append(errors, e)

\* one pass of put's loop: client.push, and the match on its result
PushImage(p, ok) ==
    LET c == call[p]
        ref == c.references[1]
    IN /\ c.op = "put" /\ c.pc = "push"
       /\ InRetryRange(c.attempt, ropts.max_retry)
       /\ ~ropts.dry_run
       /\ IF ok
          THEN /\ store' = [t \in DOMAIN store \cup {ref.tag} |->
                               IF t = ref.tag
                               THEN image_manifest(c.location, c.item)
                               ELSE store[t]]
               /\ call' = [call EXCEPT ![p] =
                              [c EXCEPT !.pushes = Append(c.pushes, ref),
                                        !.answers = Append(c.answers, "Ok"),
                                        !.pc = "done", !.ret = Ok(Unit)]]
          ELSE /\ store' = store
               /\ \E e \in PushFailures :
                      call' = [call EXCEPT ![p] =
                                  [c EXCEPT
                                      !.pushes = Append(c.pushes, ref),
                                      !.answers = Append(c.answers, e),
                                      !.errors = RecordError(c.errors, e),
                                      !.attempt = c.attempt + 1]]
       /\ UNCHANGED ropts

\* put's loop runs out of attempts
PutReturn(p) ==
    LET c == call[p]
    IN /\ c.op = "put" /\ c.pc = "push"
       /\ ~InRetryRange(c.attempt, ropts.max_retry)
       /\ call' = [call EXCEPT ![p] =
              [c EXCEPT !.pc = "done",
                        !.ret = Err([kind |-> "RetryAllFails",
                                     errors |-> c.errors])]]
       /\ UNCHANGED <<ropts, store>>

--------------------------------------------------------------------------
(* push.rs: the pusher.  push makes one push_one future per filtered id    *)
(* and drives at most `parallel` of them at once (buffer_unordered), all   *)
(* on one thread: a future runs from one await to the next without         *)
(* interleaving.  The closure push_one hands to spawn_blocking runs on a   *)
(* thread of its own.  Each push_one owns a registry context; a server     *)
(* request (Client) owns one too.                                          *)

Client == 0
Ids == 1..MaxIds
Callers == {Client} \cup Ids

NAR_CONTENT_TYPE == "application/x-nix-nar"
NARINFO_CONTENT_TYPE == "text/x-nix-narinfo"

\* options.registry, options.repository
PushRegistry == "ghcr.io"
PushRepository == "owner/cache"

\* the serialized archive of the path with this id (nix_nar::Encoder): id
\* bytes, so that the paths differ in their archives' lengths
NarData(id) == [i \in 1..id |-> id]

\* NixHash::hash_data: sha256 stands as a text that tells the archives
\* apart, one letter, 'a', 'b', ..
hash_data(data) == [algorithm |-> "sha256", base32 |-> <<96 + data[1]>>]

\* nar_hash.base32 and store_path_hash of the path with this id: one letter
\* each, 'a', 'b', .. and 'p', 'q', ..
NarHashBase32(id) == hash_data(NarData(id)).base32
StorePathHash(id) == <<111 + id>>

\* --store-dir, and path_info.path of the id
STORE_DIR == "/nix/store"
StorePath(id) == [dir |-> STORE_DIR, base |-> StorePathHash(id)]

strip_store_dir(store_path) == store_path.base

\* "1;{store_path};{nar_hash};{nar_size};{references}", the references
\* with the store directory put back
nar_info_fingerprint(store_dir, store_path, nar_hash, nar_size, references) ==
    <<"1", store_path, nar_hash, nar_size,
      [i \in DOMAIN references |-> [dir |-> store_dir, base |-> references[i]]]>>

--------------------------------------------------------------------------
(* Signatures (nix/sign.rs).  The text of a signature stands as the key    *)
(* that made it, the data it was made over and the noise it was made with  *)
(* (0 for none): Ed25519 verifies it under that key over that data only.   *)

\* the pusher's NixKeyPair
key_pair == [name |-> "cache-1", key |-> "k1"]

\* NixKeyPair::sign: sk.sign(data, None)
sign(kp, data) ==
    [name |-> kp.name,
     signature |-> [key |-> kp.key, data |-> data, noise |-> 0]]

\* NixKeyPair::verify
verify(kp, data, s) ==
    IF s.signature.key = kp.key /\ s.signature.data = data
    THEN Ok(Unit) ELSE Err([kind |-> "Ed25519"])

\* NixSignatureList::from_optional_str: no sigs, no entries
from_optional_str(sigs) == IF sigs = NoValue THEN Ok(<<>>) ELSE Ok(sigs.some)

\* faulty variant: an entry of the same name is not compared with the new one
RECURSIVE MergeLoopNoMismatch(_, _, _, _, _, _)
MergeLoopNoMismatch(list, i, kp, data, new, already_exists) ==
    IF i > Len(list)
    THEN Ok(IF already_exists THEN list ELSE Append(list, new))
    ELSE IF list[i].name # new.name
    THEN MergeLoopNoMismatch(list, i + 1, kp, data, new, already_exists)
    ELSE IF ~verify(kp, data, list[i]).ok
    THEN verify(kp, data, list[i])
    ELSE MergeLoopNoMismatch(list, i + 1, kp, data, new, TRUE)

\* faulty variant: the entries of other names are verified too
RECURSIVE MergeLoopVerifyAll(_, _, _, _, _, _)
MergeLoopVerifyAll(list, i, kp, data, new, already_exists) ==
    IF i > Len(list)
    THEN Ok(IF already_exists THEN list ELSE Append(list, new))
    ELSE IF ~verify(kp, data, list[i]).ok
    THEN verify(kp, data, list[i])
    ELSE IF list[i].name # new.name
    THEN MergeLoopVerifyAll(list, i + 1, kp, data, new, already_exists)
    ELSE IF list[i].signature # new.signature
    THEN Err([kind |-> "SignatureMismatch"])
    ELSE MergeLoopVerifyAll(list, i + 1, kp, data, new, TRUE)

\* merge, the loop from entry i on
RECURSIVE MergeLoop(_, _, _, _, _, _)
MergeLoop(list, i, kp, data, new, already_exists) ==
    IF i > Len(list)
    THEN Ok(IF already_exists THEN list ELSE Append(list, new))
    ELSE IF list[i].name # new.name
    THEN MergeLoop(list, i + 1, kp, data, new, already_exists)
    ELSE IF ~verify(kp, data, list[i]).ok
    THEN verify(kp, data, list[i])
    ELSE IF list[i].signature # new.signature
    THEN Err([kind |-> "SignatureMismatch"])
    ELSE MergeLoop(list, i + 1, kp, data, new, TRUE)

\* faulty variant: an entry of the same name is taken on trust
MergeUnverified(list, kp, data, new) ==
    Ok(IF \E i \in DOMAIN list : list[i].name = new.name
       THEN list ELSE Append(list, new))

\* NixSignatureList::merge: the list after it, or the error
merge(list, kp, data, new) ==
    MergeLoop(list, 1, kp, data, new, FALSE)

--------------------------------------------------------------------------

\* format!("nar/{nar_filename}"), nar_filename = "{nar_hash.base32}.nar.zst"
nar_file_url(id) ==
    <<110, 97, 114, 47>> \o NarHashBase32(id)
        \o <<46, 110, 97, 114, 46, 122, 115, 116>>

\* format!("{store_path_hash}.narinfo")
nar_info_filename(id) ==
    StorePathHash(id) \o <<46, 110, 97, 114, 105, 110, 102, 111>>

NarPut(id, nar_file_data) ==
    [location |-> [registry |-> PushRegistry, repository |-> PushRepository,
                   key |-> nar_file_url(id)],
     item |-> [content_type |-> Some(NAR_CONTENT_TYPE),
               data |-> nar_file_data]]

NarInfoPut(id, nar_info) ==
    [location |-> [registry |-> PushRegistry, repository |-> PushRepository,
                   key |-> nar_info_filename(id)],
     item |-> [content_type |-> Some(NARINFO_CONTENT_TYPE),
               data |-> nar_info]]

\* faulty variant: the narinfo first
ToPutNarInfoFirst(id, nar_file_data, nar_info) ==
    <<NarInfoPut(id, nar_info), NarPut(id, nar_file_data)>>

\* the vector the blocking closure returns: `// push nar first`
to_put(id, nar_file_data, nar_info) ==
    <<NarPut(id, nar_file_data), NarInfoPut(id, nar_info)>>

\* faulty variant: the size in the DB is not looked at
NarSizeUnchecked(nar_size, expected_nar_size) == TRUE

\* `nar_size != expected_nar_size` does not hold
nar_size_matches(nar_size, expected_nar_size) == nar_size = expected_nar_size

\* the blocking closure after query_path_info: the archive, its size and
\* hash, the size check, the fingerprint, the signature merged into the
\* DB's, the descriptor (of its fields: those a reader of it checks), and
\* the vector to put
blocking_closure(id, path_info, io_ok) ==
    LET nar_data == NarData(id)
        nar_size == Len(nar_data)
        nar_hash == hash_data(nar_data)
        nar_file_data == [zstd |-> nar_data]
        references ==
            [i \in DOMAIN path_info.reference_store_paths |->
                strip_store_dir(path_info.reference_store_paths[i])]
        fingerprint ==
            nar_info_fingerprint(STORE_DIR, path_info.path, nar_hash,
                                 nar_size, references)
        sig_list == from_optional_str(path_info.sigs)
        merged == merge(sig_list.val, key_pair, fingerprint,
                        sign(key_pair, fingerprint))
        nar_info == [store_path |-> path_info.path,
                     url |-> nar_file_url(id),
                     compression |-> "zstd",
                     nar_hash |-> nar_hash,
                     nar_size |-> nar_size,
                     references |-> references,
                     sigs |-> merged.val]
    IN IF ~io_ok THEN Err([kind |-> "Io"])
       ELSE IF ~nar_size_matches(nar_size, path_info.nar_size)
       THEN Err([kind |-> "NarSizeNotMatch"])
       ELSE IF ~sig_list.ok THEN sig_list
       ELSE IF ~merged.ok THEN merged
       ELSE Ok(to_put(id, nar_file_data, nar_info))

\* flag_at_read and flag_at_upload note the value of `failed` when the task
\* reads the DB and when it resumes after the blocking closure; puts lists
\* the registry::put calls of the task, each with its result once returned
IdleTask ==
    [pc |-> "queued", joined |-> NoValue, to_put |-> <<>>, next |-> 0,
     puts |-> <<>>, result |-> NoValue,
     flag_at_read |-> NoValue, flag_at_upload |-> NoValue]

\* push_one futures polled at least once and not finished
InFlight == {id \in Ids : task[id].pc \notin {"queued", "finished"}}

\* the closure not_failed
not_failed == IF failed THEN Err([kind |-> "EarlyStop"]) ELSE Ok(Unit)

\* faulty variant: the error is dropped, the flag left as it was
HandlePushResultNoStore(r, flag) == flag

\* faulty variant: NarSizeNotMatch is let pass as EarlyStop is
HandlePushResultSizeIgnored(r, flag) ==
    IF ~r.ok /\ r.err.kind \notin {"EarlyStop", "NarSizeNotMatch"}
    THEN TRUE ELSE flag

\* handle_push_result: the value of `failed` after it
handle_push_result(r, flag) ==
    IF ~r.ok /\ r.err.kind # "EarlyStop" THEN TRUE ELSE flag

\* push_one returns r: for_each hands it to handle_push_result at once
Finish(id, t, r) ==
    /\ task' = [task EXCEPT ![id] = [t EXCEPT !.pc = "finished", !.result = r]]
    /\ failed' = handle_push_result(r, failed)

--------------------------------------------------------------------------
(* push before the tasks (push.rs, nix.rs): the ids of the input paths,     *)
(* their closure through the Refs of the DB, the filter on the sigs.        *)

\* the orders a HashSet may be iterated in, a query may return its rows in
Orders(S) ==
    {o \in [1..Cardinality(S) -> S] : \A i, j \in DOMAIN o : i # j => o[i] # o[j]}

\* faulty variant: of the references of an id only the first is queued
ClosureFirstReferenceOnly(queue, result, references) ==
    IF Head(queue) \in result
    THEN [queue |-> Tail(queue), result |-> result]
    ELSE [queue |-> Tail(queue) \o (IF references = <<>> THEN <<>>
                                    ELSE <<references[1]>>),
          result |-> result \cup {Head(queue)}]

\* compute_closure, one pass of `while let Some(id) = queue.pop_front()`;
\* references: what query_references returns for the id
ClosureStep(queue, result, references) ==
    IF Head(queue) \in result
    THEN [queue |-> Tail(queue), result |-> result]
    ELSE [queue |-> Tail(queue) \o references,
          result |-> result \cup {Head(queue)}]

\* excluded_signing_key_pattern.is_match(name): the pattern stands as the
\* names it matches
name_is_match(regex, name) == name \in regex.matches

\* faulty variant: --already-signed is taken as given
FilterAlreadySigned(push_options, kp, sigs) ==
    LET sig_list == from_optional_str(sigs)
    IN IF ~sig_list.ok THEN sig_list
       ELSE Ok(\A i \in DOMAIN sig_list.val :
                   ~name_is_match(push_options.excluded_signing_key_pattern,
                                  sig_list.val[i].name))

\* filter_id_single: false at the first signature that excludes the path
filter_id_single(push_options, kp, sigs) ==
    LET sig_list == from_optional_str(sigs)
    IN IF ~sig_list.ok THEN sig_list
       ELSE Ok(\A i \in DOMAIN sig_list.val :
                   /\ ~name_is_match(push_options.excluded_signing_key_pattern,
                                     sig_list.val[i].name)
                   /\ ~(sig_list.val[i].name = kp.name
                            /\ ~push_options.already_signed))

\* the ids to filter are there: the filter runs on each, or there is none
ToFilter(p, id_closures) ==
    [p EXCEPT !.pc = IF id_closures = {} THEN "push" ELSE "filter",
              !.id_closures = id_closures, !.pending = id_closures]

\* push after query_db_ids: --no-closure, or the queue of compute_closure
Begin ==
    /\ plan.pc = "ids"
    /\ IF popts.no_closure
       THEN plan' = ToFilter(plan, plan.ids)
       ELSE \E queue \in Orders(plan.ids) :
                plan' = [plan EXCEPT !.pc = "closure", !.queue = queue]
    /\ UNCHANGED <<failed, filtered, task, popts, db, pushret>>

\* compute_closure: one id is popped
ClosurePop ==
    /\ plan.pc = "closure"
    /\ plan.queue # <<>>
    /\ \E references \in Orders(plan.refs[Head(plan.queue)]) :
           LET next == ClosureStep(plan.queue, plan.result, references)
           IN plan' = [plan EXCEPT !.queue = next.queue,
                                   !.result = next.result]
    /\ UNCHANGED <<failed, filtered, task, popts, db, pushret>>

\* compute_closure returns: the queue is empty
ClosureReturn ==
    /\ plan.pc = "closure"
    /\ plan.queue = <<>>
    /\ plan' = ToFilter(plan, plan.result)
    /\ UNCHANGED <<failed, filtered, task, popts, db, pushret>>

\* `for id in id_closures`: filter_id, and the insert
FilterId(id) ==
    /\ plan.pc = "filter"
    /\ id \in plan.pending
    /\ plan' = [plan EXCEPT !.pending = plan.pending \ {id},
                            !.pc = IF plan.pending = {id} THEN "push"
                                   ELSE "filter"]
    /\ filtered' = IF filter_id_single(popts, key_pair, db[id].sigs).val
                   THEN filtered \cup {id} ELSE filtered
    /\ UNCHANGED <<failed, task, popts, db, pushret>>

--------------------------------------------------------------------------
(* push from its first line (push.rs, nix.rs): the lines of stdin are      *)
(* canonicalized, the paths looked up in ValidPaths.  A path is the        *)
(* directory it is in and its last component; the files are what           *)
(* symlink_metadata and read_link find under a path.                       *)

\* input.starts_with(&store_dir_prefix), store_dir_prefix = "{store_dir}/"
starts_with(p, store_dir) == p.dir = store_dir

\* fs::symlink_metadata: an error for a path that does not exist
symlink_metadata(files, p) ==
    IF files[p].kind = "none" THEN Err([kind |-> "Io"])
    ELSE Ok([is_symlink |-> files[p].kind = "symlink"])

\* fs::read_link
read_link(files, p) == files[p].target

\* canonicalize_store_path_input, one pass of the loop: ret is what it
\* returns, NoValue when the loop goes on with the path
canonicalize_step(store_dir, line, p, files) ==
    IF starts_with(line, store_dir) THEN [ret |-> Ok(p), path |-> p]
    ELSE LET metadata == symlink_metadata(files, p)
         IN IF ~metadata.ok THEN [ret |-> metadata, path |-> p]
            ELSE IF metadata.val.is_symlink
            THEN [ret |-> NoValue, path |-> read_link(files, p)]
            ELSE [ret |-> Err([kind |-> "InvalidStorePath", path |-> line]),
                  path |-> p]

\* query_path_id: the one row of the path, NoPathInfo, DuplicatedPathInfo
query_path_id(rows, p) ==
    LET ids == {id \in DOMAIN rows : rows[id].path = p}
    IN IF ids = {} THEN Err([kind |-> "NoPathInfo", path |-> p])
       ELSE IF Cardinality(ids) > 1
       THEN Err([kind |-> "DuplicatedPathInfo", path |-> p])
       ELSE Ok(CHOOSE id \in ids : TRUE)

\* faulty variant: a line that cannot be canonicalized is left out
LineDoneSkipFailed(p, r) ==
    IF r.ok
    THEN [plan |-> [p EXCEPT !.pc = "lines",
                             !.input_paths = @ \cup {r.val}],
          ret |-> NoValue]
    ELSE [plan |-> [p EXCEPT !.pc = "lines"], ret |-> NoValue]

\* push, `canonicalize_store_path_input(..)?` and the insert: the plan of
\* push after it, and what push returns if it does
LineDone(p, r) ==
    IF r.ok
    THEN [plan |-> [p EXCEPT !.pc = "lines",
                             !.input_paths = @ \cup {r.val}],
          ret |-> NoValue]
    ELSE [plan |-> [p EXCEPT !.pc = "returned"], ret |-> r]

\* `for result in lines`: the next line, and canonicalize up to its loop
ReadLine ==
    /\ plan.pc = "lines"
    /\ plan.lines # <<>>
    /\ plan' = [plan EXCEPT !.pc = "canonicalize",
                            !.lines = Tail(plan.lines),
                            !.line = Head(plan.lines),
                            !.path = Head(plan.lines)]
    /\ UNCHANGED <<failed, filtered, task, popts, db, pushret>>

\* one pass of the loop of canonicalize_store_path_input
Canonicalize ==
    /\ plan.pc = "canonicalize"
    /\ LET step == canonicalize_step(STORE_DIR, plan.line, plan.path, plan.files)
       IN IF step.ret = NoValue
          THEN /\ plan' = [plan EXCEPT !.path = step.path]
               /\ pushret' = pushret
          ELSE LET called == [plan EXCEPT !.rets = Append(plan.rets,
                                  [line |-> plan.line, ret |-> step.ret])]
                   done == LineDone(called, step.ret)
               IN /\ plan' = done.plan
                  /\ pushret' = done.ret
    /\ UNCHANGED <<failed, filtered, task, popts, db>>

\* query_db_ids: query_path_id of every input path, the first error if any
QueryDbIds ==
    /\ plan.pc = "lines"
    /\ plan.lines = <<>>
    /\ LET errors == {p \in plan.input_paths : ~query_path_id(db, p).ok}
       IN IF errors = {}
          THEN /\ plan' = [plan EXCEPT !.pc = "ids",
                              !.ids = {query_path_id(db, p).val :
                                           p \in plan.input_paths}]
               /\ pushret' = pushret
          ELSE /\ plan' = [plan EXCEPT !.pc = "returned"]
               /\ \E p \in errors : pushret' = query_path_id(db, p)
    /\ UNCHANGED <<failed, filtered, task, popts, db>>

\* a query of the DB fails: in query_path_id, query_references or filter_id
QueryFails ==
    /\ \/ plan.pc = "lines" /\ plan.lines = <<>> /\ plan.input_paths # {}
       \/ plan.pc = "closure" /\ plan.queue # <<>>
       \/ plan.pc = "filter"
    /\ plan' = [plan EXCEPT !.pc = "returned"]
    /\ pushret' = Err([kind |-> "Rusqlite"])
    /\ UNCHANGED <<failed, filtered, task, popts, db>>

\* get_nix_key_pair()? fails, after the ids of the closure are there
KeyPairFails ==
    /\ \/ plan.pc = "ids" /\ popts.no_closure
       \/ plan.pc = "closure" /\ plan.queue = <<>>
    /\ plan' = [plan EXCEPT !.pc = "returned"]
    /\ pushret' = Err([kind |-> "InvalidSigningKeyEnv"])
    /\ UNCHANGED <<failed, filtered, task, popts, db>>

\* faulty variant: the stream polls a new push_one whenever one is left
StartTaskUnbounded(id) ==
    /\ plan.pc = "push"
    /\ pushret = NoValue
    /\ id \in filtered
    /\ filtered' = filtered \ {id}
    /\ IF not_failed.ok
       THEN /\ task' = [task EXCEPT ![id].pc = "spawned"]
            /\ failed' = failed
       ELSE Finish(id, task[id], not_failed)
    /\ UNCHANGED <<srv, codecVars, regVars, popts, db, plan, pushret>>

\* buffer_unordered polls a new push_one when fewer than `parallel` are in
\* flight: task header, not_failed()?, spawn_blocking
StartTask(id) ==
    /\ plan.pc = "push"
    /\ pushret = NoValue
    /\ id \in filtered
    /\ Cardinality(InFlight) < popts.parallel
    /\ filtered' = filtered \ {id}
    /\ IF not_failed.ok
       THEN /\ task' = [task EXCEPT ![id].pc = "spawned"]
            /\ failed' = failed
       ELSE Finish(id, task[id], not_failed)
    /\ UNCHANGED <<srv, codecVars, regVars, popts, db, plan, pushret>>

\* the blocking closure, on its thread: nix_db_connection and query_path_info
PrologueRead(id, ok) ==
    /\ task[id].pc = "spawned"
    /\ task' = [task EXCEPT ![id] =
           IF ok
           THEN [@ EXCEPT !.pc = "reading", !.flag_at_read = Some(failed)]
           ELSE [@ EXCEPT !.pc = "joinable", !.flag_at_read = Some(failed),
                          !.joined = Err([kind |-> "Sqlite"])]]
    /\ UNCHANGED <<srv, codecVars, regVars, failed, filtered, popts, db, plan, pushret>>

\* the blocking closure, the rest, with the PathInfo it has read; io_ok:
\* the archive could be read and compressed
PrologueBuild(id, io_ok) ==
    /\ task[id].pc = "reading"
    /\ task' = [task EXCEPT ![id] =
           [@ EXCEPT !.pc = "joinable",
                     !.joined = blocking_closure(id, db[id], io_ok)]]
    /\ UNCHANGED <<srv, codecVars, regVars, failed, filtered, popts, db, plan, pushret>>

\* push_one resumes with the closure's result: `.await??`, the registry
\* context, and the first registry::put up to its first await
Join(id) ==
    LET t == task[id]
    IN /\ t.pc = "joinable"
       /\ IF ~t.joined.ok
          THEN /\ Finish(id, t, t.joined)
               /\ UNCHANGED regVars
          ELSE /\ task' = [task EXCEPT ![id] =
                      [t EXCEPT !.pc = "upload", !.to_put = t.joined.val,
                                !.next = 1, !.flag_at_upload = Some(failed),
                                !.puts = <<[key |-> t.joined.val[1].location.key,
                                            ret |-> NoValue]>>]]
               /\ failed' = failed
               /\ Put(id, t.joined.val[1].location, t.joined.val[1].item)
       /\ UNCHANGED <<srv, codecVars, filtered, popts, db, plan, pushret>>

\* the registry::put of a push_one takes a step
TaskPutDryRun(id) ==
    /\ task[id].pc = "upload"
    /\ PutDryRun(id)
    /\ UNCHANGED <<srv, codecVars, pushVars>>

TaskPushImage(id, ok) ==
    /\ task[id].pc = "upload"
    /\ PushImage(id, ok)
    /\ UNCHANGED <<srv, codecVars, pushVars>>

TaskPutReturn(id) ==
    /\ task[id].pc = "upload"
    /\ PutReturn(id)
    /\ UNCHANGED <<srv, codecVars, pushVars>>

\* `registry::put(..).await?` in the loop over to_put: an error ends
\* push_one, success goes on to the next put or ends push_one with Ok
PutReturned(id) ==
    LET t == task[id]
        r == call[id].ret
        u == [t EXCEPT !.puts[t.next].ret = r]
    IN /\ t.pc = "upload"
       /\ call[id].pc = "done"
       /\ IF ~r.ok
          THEN Finish(id, u, r) /\ UNCHANGED regVars
          ELSE IF t.next < Len(t.to_put)
          THEN /\ task' = [task EXCEPT ![id] =
                      [u EXCEPT !.next = t.next + 1,
                                !.puts = Append(u.puts,
                                    [key |-> t.to_put[t.next + 1].location.key,
                                     ret |-> NoValue])]]
               /\ failed' = failed
               /\ Put(id, t.to_put[t.next + 1].location,
                          t.to_put[t.next + 1].item)
          ELSE Finish(id, u, Ok(Unit)) /\ UNCHANGED regVars
       /\ UNCHANGED <<srv, codecVars, filtered, popts, db, plan, pushret>>

\* faulty variant: push returns without draining the stream
PushReturnNoDrain ==
    /\ plan.pc = "push"
    /\ pushret = NoValue
    /\ pushret' = IF failed THEN Err([kind |-> "PushFailed"]) ELSE Ok(Unit)
    /\ UNCHANGED <<srv, codecVars, regVars, failed, filtered, task, popts, db, plan>>

\* push after for_each: every push_one has finished
PushReturn ==
    /\ plan.pc = "push"
    /\ pushret = NoValue
    /\ filtered = {}
    /\ InFlight = {}
    /\ pushret' = IF failed THEN Err([kind |-> "PushFailed"]) ELSE Ok(Unit)
    /\ UNCHANGED <<srv, codecVars, regVars, failed, filtered, task, popts, db, plan>>

--------------------------------------------------------------------------
(* server/auth.rs: the Authorization header.  A header value is a sequence *)
(* of bytes, a str a sequence of scalar values.                            *)

\* "^Basic (.*)$": the text after "Basic ", none holding a line feed
BASIC_AUTH_PATTERN(s) ==
    LET prefix == <<66, 97, 115, 105, 99, 32>>
        n == Len(prefix)
    IN IF /\ Len(s) >= n /\ SubSeq(s, 1, n) = prefix
          /\ \A i \in n + 1..Len(s) : s[i] # 10
       THEN Some(SubSeq(s, n + 1, Len(s))) ELSE NoValue

\* "^AWS4-HMAC-SHA256 Credential=([^ /,]+)/.*$": the text between the
\* prefix and the first '/', not empty and free of ' ' and ','
AWS_AUTH_PATTERN(s) ==
    LET prefix == <<65, 87, 83, 52, 45, 72, 77, 65, 67, 45, 83, 72, 65, 50,
                    53, 54, 32, 67, 114, 101, 100, 101, 110, 116, 105, 97,
                    108, 61>>
        n == Len(prefix)
        slashes == {i \in n + 1..Len(s) : s[i] = 47}
        slash == CHOOSE i \in slashes : \A j \in slashes : i <= j
    IN IF /\ Len(s) >= n /\ SubSeq(s, 1, n) = prefix
          /\ slashes # {} /\ slash > n + 1
          /\ \A i \in n + 1..slash - 1 : s[i] \notin {32, 44}
          /\ \A i \in slash + 1..Len(s) : s[i] # 10
       THEN Some(SubSeq(s, n + 1, slash - 1)) ELSE NoValue

\* faulty variant: "^(.+):(.+)$", the split at the last ':' that leaves a
\* password
DecodedPatternGreedy(text) ==
    LET colons == {i \in 2..Len(text) - 1 : text[i] = 58}
        colon == CHOOSE i \in colons : \A j \in colons : i >= j
    IN IF colons # {} /\ \A i \in DOMAIN text : text[i] # 10
       THEN Some(<<SubSeq(text, 1, colon - 1),
                   SubSeq(text, colon + 1, Len(text))>>)
       ELSE NoValue

\* "^([^:]+):(.+)$": a first ':' with text before it, and after it text
\* that holds no line feed
DECODED_PATTERN(text) ==
    LET colons == {i \in DOMAIN text : text[i] = 58}
        colon == CHOOSE i \in colons : \A j \in colons : i <= j
    IN IF /\ colons # {} /\ colon > 1 /\ colon < Len(text)
          /\ \A i \in colon + 1..Len(text) : text[i] # 10
       THEN Some(<<SubSeq(text, 1, colon - 1),
                   SubSeq(text, colon + 1, Len(text))>>)
       ELSE NoValue

\* faulty variant: the errors of a request are taken for the server's
CodeRequestAsServerError(kind) ==
    IF kind \in {"ReferenceNotFound", "IllFormedPath"} THEN 404 ELSE 500

\* Error::code
code(kind) ==
    IF kind \in {"ReferenceNotFound", "IllFormedPath"} THEN 404
    ELSE IF kind \in {"Http", "Reqwest", "Io", "Rusqlite", "DuplicatedPathInfo",
                      "InvalidSignature", "EarlyStop", "Join", "InvalidNarSize",
                      "NarSizeNotMatch", "RetryAllFails", "PushFailed", "Nar",
                      "PathRejection"}
    THEN 500
    ELSE 400

\* the value of a symbol of BASE64 ("A-Za-z0-9+/"), -1 for none
Base64Value(c) ==
    IF c >= 65 /\ c <= 90 THEN c - 65
    ELSE IF c >= 97 /\ c <= 122 THEN c - 71
    ELSE IF c >= 48 /\ c <= 57 THEN c + 4
    ELSE IF c = 43 THEN 62
    ELSE IF c = 47 THEN 63
    ELSE -1

\* BASE64.decode, block by block: four symbols, the last one or two of them
\* maybe '=', the bits left over zero
RECURSIVE Base64Decode(_, _)
Base64Decode(encoded_group, i) ==
    LET v == [k \in 1..4 |-> Base64Value(encoded_group[i + k - 1])]
        pad == IF encoded_group[i + 3] # 61 THEN 0
               ELSE IF encoded_group[i + 2] # 61 THEN 1 ELSE 2
        b1 == v[1] * 4 + (v[2] \div 16)
        b2 == (v[2] % 16) * 16 + (v[3] \div 4)
        b3 == (v[3] % 4) * 64 + v[4]
        rest == Base64Decode(encoded_group, i + 4)
        bad == Err([kind |-> "Decode"])
    IN IF i > Len(encoded_group) THEN Ok(<<>>)
       ELSE IF i + 3 > Len(encoded_group) THEN bad
       ELSE IF \E k \in 1..4 - pad : v[k] < 0 THEN bad
       ELSE IF pad = 2 /\ v[2] % 16 # 0 THEN bad
       ELSE IF pad = 1 /\ v[3] % 4 # 0 THEN bad
       ELSE IF ~rest.ok THEN bad
       ELSE Ok((IF pad = 2 THEN <<b1>> ELSE IF pad = 1 THEN <<b1, b2>>
                ELSE <<b1, b2, b3>>) \o rest.val)

RegistryAuth_Anonymous == [basic |-> FALSE, username |-> <<>>, password |-> <<>>]
RegistryAuth_Basic(username, password) ==
    [basic |-> TRUE, username |-> username, password |-> password]

\* from_request_parts of Auth: the RegistryAuth of the request, or the error
from_request_parts(authorization) ==
    LET value == authorization.some
        s == value
        captures == IF BASIC_AUTH_PATTERN(s) # NoValue
                    THEN BASIC_AUTH_PATTERN(s)
                    ELSE AWS_AUTH_PATTERN(s)
        bytes == Base64Decode(captures.some, 1)
        text == from_utf8(bytes.val)
        c == DECODED_PATTERN(text.val)
    IN IF authorization = NoValue THEN Ok(RegistryAuth_Anonymous)
       ELSE IF \E i \in DOMAIN value :
                   value[i] # 9 /\ (value[i] < 32 \/ value[i] > 126)
       THEN Err([kind |-> "HeaderToStr"])
       ELSE IF captures = NoValue THEN Err([kind |-> "InvalidAuthorization"])
       ELSE IF ~bytes.ok THEN Err([kind |-> "Decode"])
       ELSE IF ~text.ok THEN Err([kind |-> "FromUtf8"])
       ELSE IF c = NoValue THEN Err([kind |-> "InvalidAuthorization"])
       ELSE Ok(RegistryAuth_Basic(c.some[1], c.some[2]))

\* the extractor runs on the request
FromRequestParts ==
    /\ srv.pc = "request"
    /\ srv' = [srv EXCEPT !.pc = "extracted",
                          !.auth = from_request_parts(srv.authorization)]

--------------------------------------------------------------------------
(* The gateway (server.rs, server/upstream.rs, error.rs): the probe of the  *)
(* upstream caches, the lookup in the registry, the response.               *)

NO_SUCH_KEY_RESPONSE_BODY == "<Error><Code>NoSuchKey</Code></Error>"

Response(status, body) ==
    [status |-> status, body |-> body, location |-> NoValue,
     content_type |-> NoValue]

\* faulty variant: ReferenceNotFound is rendered as the other client errors
IntoResponsePlain(e) ==
    Response(code(e.kind),
             IF code(e.kind) \in 400..499 THEN e.kind
             ELSE "Internal Server Error")

\* Error::into_response; the Display text of an error is told by its kind
into_response(e) ==
    Response(code(e.kind),
             IF e.kind = "ReferenceNotFound" THEN NO_SUCH_KEY_RESPONSE_BODY
             ELSE IF code(e.kind) \in 400..499 THEN e.kind
             ELSE "Internal Server Error")

\* the rejection of warp::reject::not_found(), as handle_error renders it
not_found == Response(404, "not found")

\* upstream_url: the path of the base joined with the key
upstream_url(base, key) == Ok([base |-> base, key |-> key])

\* redirect_response
redirect_response(key, url) ==
    [status |-> 302, body |-> "", location |-> Some(url),
     content_type |-> NoValue]

\* ignore_upstream.is_match(key): the pattern is a literal, anchored at both
\* ends or not
is_match(regex, key) ==
    IF regex.anchored THEN key = regex.literal
    ELSE \E i \in 1..Len(key) - Len(regex.literal) + 1 :
             SubSeq(key, i, i + Len(regex.literal) - 1) = regex.literal

\* faulty variant: anonymous requests are probed like the others
SkipOnlyIgnored(server_options, key, auth) ==
    is_match(server_options.ignore_upstream, key)

\* the two early returns of check: an anonymous request while
\* upstream_anonymous is off, a key that ignore_upstream matches
skip(server_options, key, auth) ==
    \/ ~auth.basic /\ ~server_options.upstream_anonymous
    \/ is_match(server_options.ignore_upstream, key)

\* check, up to the loop over the upstreams
Check ==
    /\ srv.pc = "extracted"
    /\ srv.auth.ok
    /\ srv' =
           IF ropts.max_retry < 1
           THEN [srv EXCEPT !.pc = "probed",
                            !.checked = Err([kind |-> "InvalidMaxRetry"])]
           ELSE IF skip(srv.options, srv.location.key, srv.auth.val)
           THEN [srv EXCEPT !.pc = "probed", !.checked = Ok(NoValue)]
           ELSE [srv EXCEPT !.pc = "probe"]

\* faulty variant: a 404 is retried like any other status
AfterHeadRetry404(s, url, status) ==
    IF status = "error"
    THEN [s EXCEPT !.pc = "probed", !.checked = Err([kind |-> "Reqwest"])]
    ELSE IF status = "200"
    THEN [s EXCEPT !.pc = "probed", !.checked = Ok(Some(url))]
    ELSE [s EXCEPT !.attempt = s.attempt + 1]

\* faulty variant: a transport error is retried as a status other than 200
\* and 404 is
AfterHeadErrorRetried(s, url, status) ==
    IF status = "200"
    THEN [s EXCEPT !.pc = "probed", !.checked = Ok(Some(url))]
    ELSE IF status = "404"
    THEN [s EXCEPT !.idx = s.idx + 1, !.attempt = 1]
    ELSE [s EXCEPT !.attempt = s.attempt + 1]

\* faulty variant: a status other than 200 and 404 moves on as a 404 does
AfterHeadOtherAdvances(s, url, status) ==
    IF status = "error"
    THEN [s EXCEPT !.pc = "probed", !.checked = Err([kind |-> "Reqwest"])]
    ELSE IF status = "200"
    THEN [s EXCEPT !.pc = "probed", !.checked = Ok(Some(url))]
    ELSE [s EXCEPT !.idx = s.idx + 1, !.attempt = 1]

\* the match on the answer to a HEAD: a transport error, 200, 404, others
AfterHead(s, url, status) ==
    IF status = "error"
    THEN [s EXCEPT !.pc = "probed", !.checked = Err([kind |-> "Reqwest"])]
    ELSE IF status = "200"
    THEN [s EXCEPT !.pc = "probed", !.checked = Ok(Some(url))]
    ELSE IF status = "404"
    THEN [s EXCEPT !.idx = s.idx + 1, !.attempt = 1]
    ELSE [s EXCEPT !.attempt = s.attempt + 1]

\* one pass of the loop over the attempts: the HEAD and the match
SendHead(status) ==
    LET url == upstream_url(srv.options.upstream[srv.idx], srv.location.key).val
        sent == [srv EXCEPT !.heads = Append(srv.heads,
                     [idx |-> srv.idx, url |-> url, status |-> status])]
    IN /\ srv.pc = "probe"
       /\ srv.idx <= Len(srv.options.upstream)
       /\ InRetryRange(srv.attempt, ropts.max_retry)
       /\ srv' = AfterHead(sent, url, status)

\* the attempts on an upstream run out
HeadRetriesEnd ==
    /\ srv.pc = "probe"
    /\ srv.idx <= Len(srv.options.upstream)
    /\ ~InRetryRange(srv.attempt, ropts.max_retry)
    /\ srv' = [srv EXCEPT !.idx = srv.idx + 1, !.attempt = 1]

\* the upstreams run out: Ok(None)
CheckReturn ==
    /\ srv.pc = "probe"
    /\ srv.idx > Len(srv.options.upstream)
    /\ srv' = [srv EXCEPT !.pc = "probed", !.checked = Ok(NoValue)]

\* the request is refused by the extractor
Reject ==
    /\ srv.pc = "extracted"
    /\ ~srv.auth.ok
    /\ srv' = [srv EXCEPT !.pc = "responded",
                          !.response = into_response(srv.auth.err)]

\* get and head after the probe: its error, or the redirect
Redirect ==
    /\ srv.pc = "probed"
    /\ srv.checked # Ok(NoValue)
    /\ srv' = [srv EXCEPT !.pc = "responded",
                  !.response =
                      IF srv.checked.ok
                      THEN redirect_response(srv.location.key,
                                             srv.checked.val.some)
                      ELSE into_response(srv.checked.err)]

\* get and head after a probe that found nothing: get_layer_info is called
Lookup ==
    /\ srv.pc = "probed"
    /\ srv.checked = Ok(NoValue)
    /\ srv' = [srv EXCEPT !.pc = "registry"]
    /\ GetLayerInfo(Client, srv.location)

\* get after get_layer_info: the error, ReferenceNotFound for none, the blob
get(ret, blob_ok) ==
    IF ~ret.ok THEN into_response(ret.err)
    ELSE IF ret.val = NoValue
    THEN into_response([kind |-> "ReferenceNotFound"])
    ELSE IF ~blob_ok THEN into_response([kind |-> "OciDistribution"])
    ELSE [status |-> 200, body |-> ret.val.some.digest[2],
          location |-> NoValue,
          content_type |-> Some(ret.val.some.content_type)]

\* head after get_layer_info: the error, not_found for none, the headers
head(ret) ==
    IF ~ret.ok THEN into_response(ret.err)
    ELSE IF ret.val = NoValue THEN not_found
    ELSE [status |-> 200, body |-> "", location |-> NoValue,
          content_type |-> Some(ret.val.some.content_type)]

\* the handler answers with what the registry gave
Respond(blob_ok) ==
    /\ srv.pc = "registry"
    /\ call[Client].pc = "done"
    /\ srv' = [srv EXCEPT !.pc = "responded",
                  !.response = IF srv.method = "GET"
                               THEN get(call[Client].ret, blob_ok)
                               ELSE head(call[Client].ret)]

--------------------------------------------------------------------------
(* The registry runs: one client calls get_layer_info and put in turn.      *)

\* "a" and "c4": the custom tag of "c4" is the base32-dnssec tag of "a"
RegistryKeys == {<<97>>, <<99, 52>>}

Locations ==
    [registry : {"ghcr.io"}, repository : {"owner/cache"}, key : RegistryKeys]

Items ==
    {[content_type |-> NoValue, data |-> "d1"],
     [content_type |-> Some("text/x-nix-narinfo"), data |-> "d2"]}

\* manifests some other tool may have left under a tag
ForeignManifests ==
    LET layer == [media_type |-> LAYER_MEDIA_TYPE,
                  annotations |-> Some({<<CONTENT_TYPE_ANNOTATION, "text/plain">>}),
                  digest |-> <<"sha256", "d0">>]
    IN {[layers |-> <<layer>>, key |-> NoValue],
        [layers |-> <<>>, key |-> NoValue],
        [layers |-> <<layer, layer>>, key |-> NoValue],
        [layers |-> <<[layer EXCEPT !.media_type = "text/plain"]>>, key |-> NoValue],
        [layers |-> <<[layer EXCEPT !.annotations = NoValue]>>, key |-> NoValue],
        [layers |-> <<[layer EXCEPT !.annotations = Some({<<"other", "x">>})]>>,
         key |-> NoValue],
        [layers |-> <<[layer EXCEPT !.media_type = "text/plain",
                                    !.annotations = NoValue]>>, key |-> NoValue],
        [layers |-> <<[layer EXCEPT !.media_type = "text/plain"], layer>>,
         key |-> NoValue]}

EmptyStore == [t \in {} |-> NoValue]

\* the registry is empty, or holds one manifest under the tag "c4"
InitStores ==
    {EmptyStore} \cup {[t \in {<<99, 52>>} |-> m] : m \in ForeignManifests}

\* --tag-encoding and --fallback-encodings of the registry runs
RegistryEncodings ==
    {[tag_encoding |-> "Custom", fallback_encodings |-> <<>>],
     [tag_encoding |-> "Custom", fallback_encodings |-> <<"Base32DNSSEC">>],
     [tag_encoding |-> "Base32DNSSEC", fallback_encodings |-> <<"Custom">>],
     [tag_encoding |-> "Custom",
      fallback_encodings |-> <<"Base32DNSSEC", "Custom">>]}

RegistryOptionsSet ==
    [max_retry : 0..MaxRetry, dry_run : BOOLEAN,
     encoding_options : RegistryEncodings]

CodecIdle ==
    /\ cpc = "done"
    /\ input = <<>>
    /\ options = DefaultEncodingOptions
    /\ encoded = NoValue
    /\ decoded = NoValue

RegistryIdle ==
    /\ ropts = [max_retry |-> 0, dry_run |-> FALSE,
                encoding_options |-> DefaultEncodingOptions]
    /\ store = EmptyStore
    /\ call = [p \in Callers |-> IdleCall]

\* no request
ServerIdle == srv = [pc |-> "idle"]

\* the row query_path_info reads for an id: its own path, the size and the
\* sigs given, one reference (to itself)
PathInfo(id, nar_size, sigs) ==
    [path |-> StorePath(id), nar_size |-> nar_size, sigs |-> sigs,
     reference_store_paths |-> <<StorePath(id)>>]

\* a DB of unsigned paths whose sizes are those of their archives
SoundDb == [id \in Ids |-> PathInfo(id, Len(NarData(id)), NoValue)]

\* the closure and the filter are done
PlanIdle == plan = [pc |-> "push"]

PushIdle ==
    /\ db = SoundDb
    /\ plan = [pc |-> "push"]
    /\ failed = FALSE
    /\ filtered = {}
    /\ task = [id \in Ids |-> IdleTask]
    /\ popts = [parallel |-> 1]
    /\ pushret = NoValue

RegistryInit ==
    /\ ropts \in RegistryOptionsSet
    /\ store \in InitStores
    /\ call = [p \in Callers |-> IdleCall]

AnyPullResponse ==
    PullFailures \cup {[kind |-> "Ok", manifest |-> store[t]] : t \in DOMAIN store}

ClientGetLayerInfo ==
    /\ call[Client].ops < MaxOps
    /\ \E location \in Locations : GetLayerInfo(Client, location)
    /\ UNCHANGED <<srv, codecVars, pushVars>>

ClientPut ==
    /\ call[Client].ops < MaxOps
    /\ \E location \in Locations, item \in Items : Put(Client, location, item)
    /\ UNCHANGED <<srv, codecVars, pushVars>>

ClientPullManifest ==
    /\ \E resp \in AnyPullResponse : PullManifest(Client, resp)
    /\ UNCHANGED <<srv, codecVars, pushVars>>

ClientRetriesEnd == RetriesEnd(Client) /\ UNCHANGED <<srv, codecVars, pushVars>>

ClientGetLayerInfoReturn ==
    GetLayerInfoReturn(Client) /\ UNCHANGED <<srv, codecVars, pushVars>>

ClientPutDryRun == PutDryRun(Client) /\ UNCHANGED <<srv, codecVars, pushVars>>

ClientPushImage ==
    /\ \E ok \in BOOLEAN : PushImage(Client, ok)
    /\ UNCHANGED <<srv, codecVars, pushVars>>

ClientPutReturn == PutReturn(Client) /\ UNCHANGED <<srv, codecVars, pushVars>>

CallKeyToTag ==
    /\ \E opts \in EncodingOptionsSet : KeyToTag(opts)
    /\ UNCHANGED <<srv, regVars, pushVars>>

CallTagToKeyOfTag ==
    /\ \E i \in 1..(Len(options.fallback_encodings) + 1) : TagToKeyOfTag(i)
    /\ UNCHANGED <<srv, regVars, pushVars>>

CallTagToKey ==
    /\ \E opts \in EncodingOptionsSet : TagToKey(opts)
    /\ UNCHANGED <<srv, regVars, pushVars>>

CallEncode == Encode /\ UNCHANGED <<srv, regVars, pushVars>>

CallDecodeEncoded == DecodeEncoded /\ UNCHANGED <<srv, regVars, pushVars>>

CallDecode == Decode /\ UNCHANGED <<srv, regVars, pushVars>>

CodecNext ==
    \/ CallEncode
    \/ CallDecodeEncoded
    \/ CallDecode
    \/ CallKeyToTag
    \/ CallTagToKeyOfTag
    \/ CallTagToKey

RegistryNext ==
    \/ ClientGetLayerInfo
    \/ ClientPullManifest
    \/ ClientRetriesEnd
    \/ ClientGetLayerInfoReturn
    \/ ClientPut
    \/ ClientPutDryRun
    \/ ClientPushImage
    \/ ClientPutReturn

\* the options of a push: --parallel, and the RegistryOptions that
\* from_push_options takes from them
PushOptionsSet == [parallel : 1..MaxParallel]

PushRegistryOptionsSet ==
    [max_retry : 0..MaxRetry, dry_run : BOOLEAN,
     encoding_options : {DefaultEncodingOptions}]

\* push at the point where it has filtered the ids (the first n of them):
\* no task yet, the flag clear, the registry empty
PushInit ==
    /\ ropts \in PushRegistryOptionsSet
    /\ db = SoundDb
    /\ PlanIdle
    /\ store = EmptyStore
    /\ call = [p \in Callers |-> IdleCall]
    /\ failed = FALSE
    /\ filtered \in {1..n : n \in 0..MaxIds}
    /\ task = [id \in Ids |-> IdleTask]
    /\ popts \in PushOptionsSet
    /\ pushret = NoValue

PushStartTask == \E id \in Ids : StartTask(id)

PushPrologueRead == \E id \in Ids, ok \in BOOLEAN : PrologueRead(id, ok)

PushPrologueBuild ==
    \E id \in Ids, io_ok \in BOOLEAN : PrologueBuild(id, io_ok)

PushJoin == \E id \in Ids : Join(id)

PushPutDryRun == \E id \in Ids : TaskPutDryRun(id)

PushPushImage == \E id \in Ids, ok \in BOOLEAN : TaskPushImage(id, ok)

PushPutReturn == \E id \in Ids : TaskPutReturn(id)

PushPutReturned == \E id \in Ids : PutReturned(id)

CodecRun == CodecInit /\ RegistryIdle /\ PushIdle /\ ServerIdle

RegistryRun == CodecIdle /\ RegistryInit /\ PushIdle /\ ServerIdle

CodecSpec == CodecRun /\ [][CodecNext]_vars

RegistrySpec == RegistryRun /\ [][RegistryNext]_vars

Init == CodecIdle /\ PushInit /\ ServerIdle

Next ==
    \/ PushStartTask
    \/ PushPrologueRead
    \/ PushPrologueBuild
    \/ PushJoin
    \/ PushPutDryRun
    \/ PushPushImage
    \/ PushPutReturn
    \/ PushPutReturned
    \/ PushReturn

Spec == Init /\ [][Next]_vars

--------------------------------------------------------------------------
(* The pusher plans: from the ids of the input paths to the first polls.   *)

PlanBegin == Begin /\ UNCHANGED <<srv, codecVars, regVars>>

PlanClosurePop == ClosurePop /\ UNCHANGED <<srv, codecVars, regVars>>

PlanClosureReturn == ClosureReturn /\ UNCHANGED <<srv, codecVars, regVars>>

PlanFilterId ==
    /\ \E id \in Ids : FilterId(id)
    /\ UNCHANGED <<srv, codecVars, regVars>>

PlanNext ==
    \/ PlanBegin
    \/ PlanClosurePop
    \/ PlanClosureReturn
    \/ PlanFilterId
    \/ PushStartTask

\* the names of signatures: the pusher's, another's, the upstream cache's
SigNames == {"cache-1", "other-1", "cache.nixos.org-1"}

\* push before anything is read but the ids; the tasks do not run
PlanInit ==
    /\ ropts = [max_retry |-> 2, dry_run |-> TRUE,
                encoding_options |-> DefaultEncodingOptions]
    /\ store = EmptyStore
    /\ call = [p \in Callers |-> IdleCall]
    /\ failed = FALSE
    /\ filtered = {}
    /\ task = [id \in Ids |-> IdleTask]
    /\ pushret = NoValue

\* any Refs among the ids, any ids given, unsigned paths
ClosureInit ==
    /\ PlanInit
    /\ db = SoundDb
    /\ popts \in [parallel : {MaxParallel}, no_closure : BOOLEAN,
                  already_signed : {FALSE},
                  excluded_signing_key_pattern :
                      {[matches |-> {"cache.nixos.org-1"}]}]
    /\ plan \in [pc : {"ids"}, refs : [Ids -> SUBSET Ids], ids : SUBSET Ids,
                 queue : {<<>>}, result : {{}}, id_closures : {{}},
                 pending : {{}}]

ClosureRun == CodecIdle /\ ClosureInit /\ ServerIdle

\* push runs on: every step that can be taken is taken
ClosureSpec == ClosureRun /\ [][PlanNext]_vars /\ WF_vars(PlanNext)

\* the sigs a row may hold: none, one name, another name and then one
PlanSigs ==
    {NoValue} \cup {Some(<<sign([name |-> n, key |-> "k"], <<>>)>>) : n \in SigNames}
        \cup {Some(<<sign([name |-> "other-1", key |-> "k"], <<>>),
                     sign([name |-> n, key |-> "k"], <<>>)>>) :
                  n \in SigNames \ {"other-1"}}

\* no Refs, or every id refers to the next; the first id given, or all; any
\* sigs, any of the options of the filter
FilterInit ==
    /\ PlanInit
    /\ db \in {[id \in Ids |-> PathInfo(id, Len(NarData(id)), sigs[id])] :
                   sigs \in [Ids -> PlanSigs]}
    /\ popts \in [parallel : {MaxParallel}, no_closure : BOOLEAN,
                  already_signed : BOOLEAN,
                  excluded_signing_key_pattern :
                      {[matches |-> {"cache.nixos.org-1"}],
                       [matches |-> {}],
                       [matches |-> {"other-1", "cache-1"}]}]
    /\ plan \in [pc : {"ids"},
                 refs : {[id \in Ids |-> {}],
                         [id \in Ids |-> {id + 1} \cap Ids]},
                 ids : {{1}, Ids},
                 queue : {<<>>}, result : {{}}, id_closures : {{}},
                 pending : {{}}]

FilterRun == CodecIdle /\ FilterInit /\ ServerIdle

FilterSpec == FilterRun /\ [][PlanNext]_vars

--------------------------------------------------------------------------
(* push runs from its first line: any lines, any links outside the store.   *)

MaxLines == 2

\* two paths outside the store, and a store path that has no row
Link1 == [dir |-> "/home", base |-> <<114>>]
Link2 == [dir |-> "/home", base |-> <<115>>]
NoRowPath == StorePath(MaxIds + 1)

InputPaths == {StorePath(id) : id \in Ids} \cup {NoRowPath, Link1, Link2}

Missing(p) == [kind |-> "none", target |-> p]
Directory(p) == [kind |-> "dir", target |-> p]
Symlink(p) == [kind |-> "symlink", target |-> p]

\* the store paths are directories; the first outside path is missing, a
\* directory, or a link to a store path, to itself or to the second; the
\* second is a directory or a link to the first or to a store path
FileSystems ==
    {[p \in InputPaths |->
         IF p = Link1 THEN e1 ELSE IF p = Link2 THEN e2 ELSE Directory(p)] :
         e1 \in {Missing(Link1), Directory(Link1), Symlink(StorePath(1)),
                 Symlink(Link1), Symlink(Link2)},
         e2 \in {Directory(Link2), Symlink(Link1), Symlink(StorePath(MaxIds))}}

\* ValidPaths as it should be, and with two rows of the first path
InputDbs ==
    {SoundDb, [SoundDb EXCEPT ![MaxIds] = PathInfo(1, Len(NarData(1)), NoValue)]}

InputInit ==
    /\ PlanInit
    /\ db \in InputDbs
    /\ popts \in [parallel : {MaxParallel}, no_closure : BOOLEAN,
                  already_signed : {FALSE},
                  excluded_signing_key_pattern :
                      {[matches |-> {"cache.nixos.org-1"}]}]
    /\ plan \in [pc : {"lines"}, files : FileSystems,
                 lines : SeqsUpTo(InputPaths, MaxLines),
                 line : {Link1}, path : {Link1},
                 input_paths : {{}}, rets : {<<>>},
                 refs : {[id \in Ids |-> {id + 1} \cap Ids]}, ids : {{}},
                 queue : {<<>>}, result : {{}}, id_closures : {{}},
                 pending : {{}}]

InputRun == CodecIdle /\ InputInit /\ ServerIdle

InputReadLine == ReadLine /\ UNCHANGED <<srv, codecVars, regVars>>

InputCanonicalize == Canonicalize /\ UNCHANGED <<srv, codecVars, regVars>>

InputQueryDbIds == QueryDbIds /\ UNCHANGED <<srv, codecVars, regVars>>

InputQueryFails == QueryFails /\ UNCHANGED <<srv, codecVars, regVars>>

InputKeyPairFails == KeyPairFails /\ UNCHANGED <<srv, codecVars, regVars>>

InputNext ==
    \/ InputReadLine
    \/ InputCanonicalize
    \/ InputQueryDbIds
    \/ InputQueryFails
    \/ InputKeyPairFails
    \/ PlanBegin
    \/ PlanClosurePop
    \/ PlanClosureReturn
    \/ PlanFilterId
    \/ PushStartTask

\* push runs on: a step that can be taken is taken
InputSpec == InputRun /\ [][InputNext]_vars /\ WF_vars(InputNext)

--------------------------------------------------------------------------
(* The extractor runs: one request, whatever its Authorization header.      *)

\* what may stand where the credentials do: the base64 of "user:pass",
\* "u:p", "u:", ":p", ":", "u", "", "u::", "u:p\n", "u\n:p", FF ":p",
\* "e-acute:p" and "a:b:c", and texts that are not base64
AuthGroups ==
    {<<100, 88, 78, 108, 99, 106, 112, 119, 89, 88, 78, 122>>,
     <<100, 84, 112, 119>>,
     <<100, 84, 111, 61>>,
     <<79, 110, 65, 61>>,
     <<79, 103, 61, 61>>,
     <<100, 81, 61, 61>>,
     <<>>,
     <<100, 84, 111, 54>>,
     <<100, 84, 112, 119, 67, 103, 61, 61>>,
     <<100, 81, 111, 54, 99, 65, 61, 61>>,
     <<47, 122, 112, 119>>,
     <<119, 54, 107, 54, 99, 65, 61, 61>>,
     <<89, 84, 112, 105, 79, 109, 77, 61>>,
     <<63, 63, 63>>,
     <<100, 84, 112>>,
     <<100, 82, 61, 61>>,
     <<61, 100, 84, 112>>,
     <<100, 61, 112, 119>>,
     <<100, 84, 112, 119, 61, 61, 61, 61>>}

\* a scheme, credentials, and maybe a tail; and one header that is no text
AuthHeaders ==
    {pre \o g \o post :
        pre \in {<<66, 97, 115, 105, 99, 32>>,
                 <<65, 87, 83, 52, 45, 72, 77, 65, 67, 45, 83, 72, 65, 50,
                   53, 54, 32, 67, 114, 101, 100, 101, 110, 116, 105, 97,
                   108, 61>>,
                 <<98, 97, 115, 105, 99, 32>>, <<66, 101, 97, 114, 101, 114, 32>>},
        g \in AuthGroups,
        post \in {<<>>, <<47, 102, 111, 111>>, <<44, 120, 47>>}}
    \cup {<<66, 97, 115, 105, 99, 32, 233>>}

AuthInit ==
    \E h \in {NoValue} \cup {Some(v) : v \in AuthHeaders} :
        srv = [pc |-> "request", authorization |-> h, auth |-> NoValue]

AuthRun == CodecIdle /\ RegistryIdle /\ PushIdle /\ AuthInit

AuthRequest == FromRequestParts /\ UNCHANGED <<codecVars, regVars, pushVars>>

AuthNext == AuthRequest

AuthSpec == AuthRun /\ [][AuthNext]_vars

--------------------------------------------------------------------------
(* The gateway runs: one GET or HEAD request, from its headers on.          *)

\* "nix-cache-info", and "c4", the key the registry may hold
ServerKeys ==
    {<<110, 105, 120, 45, 99, 97, 99, 104, 101, 45, 105, 110, 102, 111>>,
     <<99, 52>>}

\* --upstream: the lists of distinct bases up to MaxUpstreams
Upstreams ==
    {u \in SeqsUpTo({"U1", "U2", "U3"}, MaxUpstreams) :
         \A i, j \in DOMAIN u : i # j => u[i] # u[j]}

\* --ignore-upstream: the default, and the anchored pattern
IgnorePatterns ==
    {[anchored |-> a,
      literal |-> <<110, 105, 120, 45, 99, 97, 99, 104, 101, 45, 105, 110,
                    102, 111>>] : a \in BOOLEAN}

ServerOptionsSet ==
    [upstream : Upstreams, upstream_anonymous : BOOLEAN,
     ignore_upstream : IgnorePatterns]

\* no header, user:pass, and a header that is refused
ServerHeaders ==
    {NoValue,
     Some(<<66, 97, 115, 105, 99, 32, 100, 88, 78, 108, 99, 106, 112, 119,
            89, 88, 78, 122>>),
     Some(<<66, 97, 115, 105, 99, 32, 63, 63, 63>>)}

ServerInit ==
    /\ ropts \in [max_retry : 0..MaxRetry, dry_run : {FALSE},
                  encoding_options : {DefaultEncodingOptions}]
    /\ store \in {EmptyStore, [t \in {<<99, 52>>} |->
           image_manifest([key |-> <<99, 52>>],
                          [content_type |-> NoValue, data |-> "d1"])]}
    /\ call = [p \in Callers |-> IdleCall]
    /\ srv \in [pc : {"request"}, method : {"GET", "HEAD"},
                location : [registry : {"ghcr.io"},
                            repository : {"owner/cache"}, key : ServerKeys],
                options : ServerOptionsSet, authorization : ServerHeaders,
                auth : {NoValue}, idx : {1}, attempt : {1}, heads : {<<>>},
                checked : {NoValue}, response : {NoValue}]

ServerRun == CodecIdle /\ PushIdle /\ ServerInit

ServerCheck == Check /\ UNCHANGED <<codecVars, regVars, pushVars>>

ServerHead ==
    /\ \E status \in {"200", "404", "500", "error"} : SendHead(status)
    /\ UNCHANGED <<codecVars, regVars, pushVars>>

ServerHeadRetriesEnd ==
    HeadRetriesEnd /\ UNCHANGED <<codecVars, regVars, pushVars>>

ServerCheckReturn == CheckReturn /\ UNCHANGED <<codecVars, regVars, pushVars>>

ServerReject == Reject /\ UNCHANGED <<codecVars, regVars, pushVars>>

ServerRedirect == Redirect /\ UNCHANGED <<codecVars, regVars, pushVars>>

ServerLookup == Lookup /\ UNCHANGED <<codecVars, pushVars>>

ServerRespond ==
    /\ \E blob_ok \in BOOLEAN : Respond(blob_ok)
    /\ UNCHANGED <<codecVars, regVars, pushVars>>

ServerNext ==
    \/ AuthRequest
    \/ ServerReject
    \/ ServerCheck
    \/ ServerHead
    \/ ServerHeadRetriesEnd
    \/ ServerCheckReturn
    \/ ServerRedirect
    \/ ServerLookup
    \/ ClientPullManifest
    \/ ClientRetriesEnd
    \/ ClientGetLayerInfoReturn
    \/ ServerRespond

ServerSpec == ServerRun /\ [][ServerNext]_vars


\* the fingerprint of the path's descriptor, and one of a stale descriptor
PathFingerprint(id, nar_size) ==
    nar_info_fingerprint(STORE_DIR, StorePath(id), hash_data(NarData(id)),
                         nar_size, <<StorePathHash(id)>>)

\* signatures a DB row may hold: ours, ours made with noise, one of another
\* key under our name, ours over a stale descriptor, and two of another
\* name, one of them void
DbSigEntries(id) ==
    LET fp == PathFingerprint(id, Len(NarData(id)))
        stale == PathFingerprint(id, Len(NarData(id)) + 1)
    IN {sign(key_pair, fp),
        [name |-> key_pair.name,
         signature |-> [key |-> key_pair.key, data |-> fp, noise |-> 1]],
        [name |-> key_pair.name,
         signature |-> [key |-> "k2", data |-> fp, noise |-> 0]],
        sign(key_pair, stale),
        sign([name |-> "other-1", key |-> "k2"], fp),
        sign([name |-> "other-1", key |-> "k2"], stale)}

DbSigs(id) ==
    {NoValue} \cup {Some(l) : l \in SeqsUpTo(DbSigEntries(id), MaxSigs) \ {<<>>}}

\* push with one id filtered (--already-signed), whatever its row holds
PrologueInit ==
    /\ ropts \in [max_retry : {2}, dry_run : BOOLEAN,
                  encoding_options : {DefaultEncodingOptions}]
    /\ store = EmptyStore
    /\ call = [p \in Callers |-> IdleCall]
    /\ failed = FALSE
    /\ PlanIdle
    /\ filtered \in {{id} : id \in Ids}
    /\ \E id \in filtered :
          \E n \in 1..MaxNarSize, sigs \in DbSigs(id) :
              db = [SoundDb EXCEPT ![id] = PathInfo(id, n, sigs)]
    /\ task = [id \in Ids |-> IdleTask]
    /\ popts = [parallel |-> 1]
    /\ pushret = NoValue

PrologueRun == CodecIdle /\ PrologueInit /\ ServerIdle

PrologueSpec == PrologueRun /\ [][Next]_vars

\* push with every id filtered, the row of one of them giving a narSize
\* that is not the size of its archive
NarSizeInit ==
    /\ ropts \in [max_retry : {2}, dry_run : BOOLEAN,
                  encoding_options : {DefaultEncodingOptions}]
    /\ store = EmptyStore
    /\ call = [p \in Callers |-> IdleCall]
    /\ failed = FALSE
    /\ PlanIdle
    /\ filtered = Ids
    /\ \E id \in Ids :
          \E n \in (1..MaxNarSize) \ {Len(NarData(id))} :
              db = [SoundDb EXCEPT ![id] = PathInfo(id, n, NoValue)]
    /\ task = [id \in Ids |-> IdleTask]
    /\ popts \in PushOptionsSet
    /\ pushret = NoValue

NarSizeRun == CodecIdle /\ NarSizeInit /\ ServerIdle

NarSizeSpec == NarSizeRun /\ [][Next]_vars

\* the runtime keeps polling: a blocking thread, a put or the collector that
\* can take a step is not left waiting forever; --parallel at its largest,
\* whose schedules include those of the smaller values, and a put of one
\* attempt at most
FairInit == Init /\ popts.parallel = MaxParallel /\ ropts.max_retry <= 2

FairSpec == FairInit /\ [][Next]_vars /\ WF_vars(Next)

--------------------------------------------------------------------------
(* Properties of the tag codec (CodecSpec).                                 *)

\* [a-zA-Z0-9_][a-zA-Z0-9._-]{0,127}
IsOciTag(t) ==
    /\ Len(t) >= 1 /\ Len(t) <= TagMaxChars
    /\ IsAlnum(t[1]) \/ t[1] = 95
    /\ \A i \in 1..Len(t) : IsAlnum(t[i]) \/ t[i] \in {45, 46, 95}

\* the index of a symbol in 0-9, a-z, A-Z, '-', '.', or -1
SymbolIndex(c) ==
    IF c >= 48 /\ c <= 57 THEN c - 48
    ELSE IF c >= 97 /\ c <= 122 THEN c - 87
    ELSE IF c >= 65 /\ c <= 90 THEN c - 29
    ELSE IF c = 45 THEN 62
    ELSE IF c = 46 THEN 63
    ELSE -1

\* the number a digit run writes in base 64, most significant symbol first
RECURSIVE DigitsValue(_)
DigitsValue(ds) ==
    IF ds = <<>> THEN 0
    ELSE DigitsValue(SubSeq(ds, 1, Len(ds) - 1)) * 64 + SymbolIndex(ds[Len(ds)])

\* enc[j..] encodes key[i..], every escape being '_' digits '_' with the
\* digits writing the character's code point without a leading '0'; empty
\* digit runs are accepted for the characters of emptyOk only
RECURSIVE EscapesWellFormed(_, _, _, _, _)
EscapesWellFormed(key, i, enc, j, emptyOk) ==
    IF i > Len(key) THEN j = Len(enc) + 1
    ELSE IF j > Len(enc) THEN FALSE
    ELSE IF enc[j] # 95
         THEN enc[j] = key[i] /\ EscapesWellFormed(key, i + 1, enc, j + 1, emptyOk)
    ELSE LET k == NextMarker(enc, j + 1)
             ds == SubSeq(enc, j + 1, k - 1)
         IN /\ k # 0
            /\ \A d \in 1..Len(ds) : SymbolIndex(ds[d]) >= 0
            /\ Len(ds) < 5
            /\ DigitsValue(ds) = key[i]
            /\ ds # <<>> => ds[1] # 48
            /\ ds = <<>> => key[i] \in emptyOk
            /\ EscapesWellFormed(key, i + 1, enc, k + 1, emptyOk)

\* encode("--"), encode(".."), encode("//"), encode("__") of the spec
EncodeExamples ==
    /\ input = <<45, 45>> => encoded = <<95, 74, 95, 45>>
    /\ input = <<46, 46>> => encoded = <<95, 75, 95, 46>>
    /\ input = <<47, 47>> => encoded = <<95, 76, 95, 95, 76, 95>>
    /\ input = <<95, 95>> => encoded = <<95, 49, 118, 95, 95, 49, 118, 95>>

\* C1: for every key whose custom encoding has at most 128 characters,
\* decode(encode(key)) succeeds and returns exactly the key.
C1_RoundTrip ==
    (cpc = "roundtrip" /\ Len(encoded) <= TagMaxChars)
        => decoded.res = Ok(input)

\* C1 witness: a key of escaped and verbatim characters whose encoding is
\* exactly 128 characters long has been encoded and decoded back.
C1_Witness ==
    /\ cpc = "roundtrip"
    /\ Len(encoded) = TagMaxChars
    /\ Len(input) < Len(encoded)
    /\ decoded.res = Ok(input)

C3_EscapeDigits ==
    cpc = "encoded"
        => EscapesWellFormed(input, 1, encoded, 1, {}) /\ EncodeExamples

\* C3 as amended: as claimed, but the digit run is empty for U+0000 (which
\* is emitted as "__") and only for it.
C3_EscapeDigitsButNul ==
    cpc = "encoded"
        => EscapesWellFormed(input, 1, encoded, 1, {0}) /\ EncodeExamples

\* C3 witness: "__" has been encoded as "_1v__1v_".
C3_Witness ==
    /\ cpc = "encoded"
    /\ input = <<95, 95>>
    /\ encoded = <<95, 49, 118, 95, 95, 49, 118, 95>>

\* C4: tag_to_key returns what the first encoding that decodes the tag
\* returns, trying the main encoding and then the fallbacks in order; when
\* none decodes it, TagToKey with one error per encoding, in that order.
C4_TagToKeyOrder ==
    cpc = "key_of_tag" =>
        LET encs == <<options.tag_encoding>> \o options.fallback_encodings
            r(i) == TagEncoding_tag_to_key(encs[i], input)
            oks == {i \in 1..Len(encs) : r(i).ok}
        IN IF oks # {}
           THEN decoded.res = r(CHOOSE i \in oks : \A j \in oks : i <= j)
           ELSE /\ ~decoded.res.ok
                /\ decoded.res.err.kind = "TagToKey"
                /\ decoded.res.err.errors = [i \in 1..Len(encs) |-> r(i).err]

\* C4 witness: a tag that neither the main encoding nor the two fallbacks
\* decode has been given to tag_to_key, which returned three errors.
C4_Witness ==
    /\ cpc = "key_of_tag"
    /\ Len(options.fallback_encodings) = 2
    /\ ~decoded.res.ok
    /\ Len(decoded.res.err.errors) = 3

--------------------------------------------------------------------------
(* Properties of the registry adapter (RegistrySpec).                      *)

\* the positions in c.pulls of the pulls of the reference at index m
PullsOf(c, m) == {i \in 1..Len(c.pulls) : c.pulls[i].idx = m}

\* the reference at index m ended its attempts on a terminal not-found
EndedNotFound(c, m) ==
    \E i \in PullsOf(c, m) :
        /\ c.pulls[i].answer = "not_found"
        /\ \A k \in PullsOf(c, m) : k <= i

\* once the loops are over: the reference at index m used up its attempts,
\* each one a retriable error
Exhausted(c, m) ==
    /\ PullsOf(c, m) # {}
    /\ \A i \in PullsOf(c, m) : c.pulls[i].answer = "error"

\* C5: get_layer_info queries the references in the order [primary,
\* fallback 1, fallback 2, ...]: every pull is of the reference at its index
\* in references_merged, a reference is pulled only after every earlier one
\* ended its attempts (a terminal not-found, or max_retry - 1 retriable
\* errors), no pull follows a pull that succeeded, and when the primary
\* succeeds no fallback is pulled.
C5_PullOrder ==
    LET c == call[Client]
        refs == references_merged(c.location, ropts.encoding_options)
    IN c.op = "get" =>
        /\ \A i \in 1..Len(c.pulls) :
              /\ c.pulls[i].idx \in 1..Len(refs)
              /\ c.pulls[i].reference = refs[c.pulls[i].idx]
              /\ \A j \in 1..(i - 1) : c.pulls[j].idx <= c.pulls[i].idx
              /\ \A m \in 1..(c.pulls[i].idx - 1) :
                    \/ EndedNotFound(c, m)
                    \/ /\ Cardinality(PullsOf(c, m)) = ropts.max_retry - 1
                       /\ \A k \in PullsOf(c, m) : c.pulls[k].answer = "error"
              /\ c.pulls[i].answer = "ok" => i = Len(c.pulls)
        /\ (\E i \in PullsOf(c, 1) : c.pulls[i].answer = "ok")
               => \A i \in 1..Len(c.pulls) : c.pulls[i].idx = 1

\* the primary used up its attempts on errors, and the fallback, a different
\* reference, was pulled with success
C5_Witness ==
    LET c == call[Client]
    IN /\ c.op = "get" /\ c.pc = "done"
       /\ Len(c.pulls) = 3
       /\ c.pulls[1].answer = "error" /\ c.pulls[2].answer = "error"
       /\ c.pulls[3].idx = 2 /\ c.pulls[3].answer = "ok"
       /\ c.pulls[3].reference # c.pulls[1].reference

\* C6: when no pull succeeds, get_layer_info returns none if every
\* reference ended on a terminal not-found and no attempt met a retriable
\* error, and it returns RetryAllFails carrying the errors, not none, if
\* some reference used up its attempts on retriable errors.
C6_NoneOrRetryAllFails ==
    LET c == call[Client]
        refs == 1..Len(c.references)
    IN (c.op = "get" /\ c.pc = "done" /\ ropts.max_retry >= 1
            /\ c.pull_result = NoValue) =>
        /\ ((\A m \in refs : EndedNotFound(c, m))
                /\ \A i \in 1..Len(c.pulls) : c.pulls[i].answer # "error")
               => c.ret = Ok(NoValue)
        /\ (\E m \in refs : Exhausted(c, m))
               => /\ ~c.ret.ok
                  /\ c.ret.err.kind = "RetryAllFails"
                  /\ c.ret.err.errors # <<>>

\* C7: with dry_run, put returns success and pushes nothing, for every
\* max_retry >= 1.
C7_DryRunPutSucceeds ==
    LET c == call[Client]
    IN (c.op = "put" /\ c.pc = "done" /\ ropts.dry_run /\ ropts.max_retry >= 1)
           => (c.ret = Ok(Unit) /\ c.pushes = <<>>)

\* C8: every push of put goes to the reference built from the primary tag
\* of the location's key, and to no reference of a fallback tag that
\* differs from it.
C8_PutPrimaryOnly ==
    LET c == call[Client]
        r == reference(c.location, ropts.encoding_options)
    IN c.op = "put" =>
        \A i \in 1..Len(c.pushes) :
            /\ c.pushes[i] = r.main
            /\ \A j \in 1..Len(r.fallbacks) :
                  r.fallbacks[j] # r.main => c.pushes[i] # r.fallbacks[j]

\* a put that pushed, with a fallback encoding whose tag differs
C8_Witness ==
    LET c == call[Client]
        r == reference(c.location, ropts.encoding_options)
    IN /\ c.op = "put" /\ c.pc = "done" /\ c.ret = Ok(Unit)
       /\ c.pushes # <<>>
       /\ r.fallbacks # <<>> /\ r.fallbacks[1] # r.main
       /\ r.main.tag \in DOMAIN store

--------------------------------------------------------------------------
(* Properties of the pusher (Spec).                                         *)

\* the tag put writes for a key
PushTag(key) == key_to_tag(ropts.encoding_options, key).main

\* C9: push_one puts the archive (nar/<nar hash>.nar.zst) first and its
\* descriptor (<store hash>.narinfo) second, the descriptor only once the
\* put of the archive has returned success: after a failed put of the
\* archive there is no further put, and the registry holds no manifest of
\* a descriptor without one of its archive.
C9_NarBeforeNarInfo ==
    \A id \in Ids :
        LET puts == task[id].puts
        IN /\ puts # <<>> => puts[1].key = nar_file_url(id)
           /\ \A i \in 1..Len(puts) :
                 puts[i].key = nar_info_filename(id)
                     => i = 2 /\ puts[1].ret = Ok(Unit)
           /\ (puts # <<>> /\ puts[1].ret \notin {NoValue, Ok(Unit)})
                  => Len(puts) = 1
           /\ (\E t \in DOMAIN store : store[t].key = Some(nar_info_filename(id)))
                  => \E t \in DOMAIN store : store[t].key = Some(nar_file_url(id))

\* a path pushed in full: both puts returned success, after a failed try
C9_Witness ==
    \E id \in Ids :
        /\ task[id].pc = "finished" /\ task[id].result = Ok(Unit)
        /\ Len(task[id].puts) = 2
        /\ task[id].puts[2] = [key |-> nar_info_filename(id), ret |-> Ok(Unit)]
        /\ PushTag(nar_info_filename(id)) \in DOMAIN store
        /\ Len(call[id].pushes) = 2

\* C10: a push_one that finds `failed` set when it resumes for its upload
\* stage returns EarlyStop and issues no registry put.
C10_EarlyStopBeforeUpload ==
    \A id \in Ids :
        task[id].flag_at_upload = Some(TRUE)
            => /\ task[id].puts = <<>>
               /\ call[id].pushes = <<>>
               /\ task[id].pc = "finished"
               /\ task[id].result = Err([kind |-> "EarlyStop"])

\* C11: once `failed` is set, no push_one opens its DB connection and reads
\* its PathInfo: no blocking prologue starts its read with the flag set.
C11_NoReadOnceFailed ==
    \A id \in Ids : task[id].flag_at_read # Some(TRUE)

\* a push_one result that is an error other than EarlyStop
RealError(r) == r # NoValue /\ ~r.ok /\ r.err.kind # "EarlyStop"

\* C12: the flag is set exactly when some push_one has returned an error
\* other than EarlyStop (such an error sets it, EarlyStop and success do
\* not), it is never cleared, and push returns PushFailed if there was such
\* a result and Ok otherwise.
C12_FlagAndStatus ==
    /\ failed <=> \E id \in Ids : RealError(task[id].result)
    /\ pushret # NoValue
           => pushret = IF \E id \in Ids : RealError(task[id].result)
                        THEN Err([kind |-> "PushFailed"])
                        ELSE Ok(Unit)

C12_FlagNeverCleared == [][failed => failed']_vars

C12_PushFailedIffRealError == []C12_FlagAndStatus /\ C12_FlagNeverCleared

\* push returned PushFailed after one real error and one EarlyStop
C12_Witness ==
    /\ pushret = Err([kind |-> "PushFailed"])
    /\ \E id \in Ids : RealError(task[id].result)
    /\ \E id \in Ids : task[id].result = Err([kind |-> "EarlyStop"])

\* C13: push returns only once every filtered id has had its push_one and
\* every push_one has finished with one result (success, EarlyStop or a
\* real error); a task polled once stays until it finishes and keeps its
\* result, whatever the other tasks return; and push does return.
C13_Drained ==
    pushret # NoValue
        => /\ filtered = {}
           /\ \A id \in Ids :
                 task[id].pc # "queued"
                     => /\ task[id].pc = "finished"
                        /\ \/ task[id].result = Ok(Unit)
                           \/ task[id].result = Err([kind |-> "EarlyStop"])
                           \/ RealError(task[id].result)

C13_NoTaskDropped ==
    [][\A id \in Ids :
          /\ id \in filtered => (id \in filtered' \/ task'[id].pc # "queued")
          /\ task[id].pc # "queued" => task'[id].pc # "queued"
          /\ task'[id].pc = "finished" <=> task'[id].result # NoValue
          /\ task[id].pc = "finished" => task'[id] = task[id]]_vars

C13_PushReturns == <>(pushret # NoValue)

C13_DrainThenReturn ==
    []C13_Drained /\ C13_NoTaskDropped /\ C13_PushReturns

\* push has returned; a task that resumed after another's failure went on
\* to its end
C13_Witness ==
    /\ pushret # NoValue
    /\ \E id \in Ids :
          /\ task[id].flag_at_upload = Some(TRUE)
          /\ task[id].pc = "finished"
          /\ Len(task[id].puts) = 2

--------------------------------------------------------------------------
(* Properties of the descriptors (PrologueSpec).                            *)

\* the descriptors handed to registry::put
UploadedDescriptors ==
    {call[id].item.data :
        id \in {i \in Ids : /\ call[i].op = "put"
                            /\ call[i].location.key = nar_info_filename(i)}}

\* the fingerprint a reader of the descriptor builds from its fields
DescriptorFingerprint(nar_info) ==
    nar_info_fingerprint(STORE_DIR, nar_info.store_path, nar_info.nar_hash,
                         nar_info.nar_size, nar_info.references)

\* C14: every descriptor the pusher uploads has a Sig of the pusher's key
\* name, and each of its Sigs of that name verifies under the pusher's key
\* over the descriptor's own fingerprint.
C14_SignedByPusher ==
    \A nar_info \in UploadedDescriptors :
        /\ \E i \in DOMAIN nar_info.sigs : nar_info.sigs[i].name = key_pair.name
        /\ \A i \in DOMAIN nar_info.sigs :
              nar_info.sigs[i].name = key_pair.name
                  => verify(key_pair, DescriptorFingerprint(nar_info),
                            nar_info.sigs[i]).ok

\* a descriptor is in the registry whose row held our signature already,
\* after one of another name
C14_Witness ==
    \E id \in Ids :
        /\ db[id].sigs # NoValue
        /\ Len(db[id].sigs.some) = 2
        /\ db[id].sigs.some[2].name = key_pair.name
        /\ db[id].sigs.some[1].name # key_pair.name
        /\ \E t \in DOMAIN store : store[t].key = Some(nar_info_filename(id))
        /\ call[id].item.data \in UploadedDescriptors

--------------------------------------------------------------------------
(* Properties of the extractor (AuthSpec).                                  *)

\* the credentials of the request's header: the text its group decodes to,
\* when the header is text of one of the two grammars and the group is
\* base64 of UTF-8
Credentials ==
    LET s == srv.authorization.some
        g == IF BASIC_AUTH_PATTERN(s) # NoValue THEN BASIC_AUTH_PATTERN(s)
             ELSE AWS_AUTH_PATTERN(s)
    IN IF srv.authorization = NoValue \/ \E i \in DOMAIN s : s[i] > 126
       THEN NoValue
       ELSE IF g = NoValue \/ ~Base64Decode(g.some, 1).ok THEN NoValue
       ELSE IF ~from_utf8(Base64Decode(g.some, 1).val).ok THEN NoValue
       ELSE Some(from_utf8(Base64Decode(g.some, 1).val).val)

\* the text before the first ':' and the text after it
SplitAtFirstColon(text) ==
    LET colon == CHOOSE i \in DOMAIN text :
                     text[i] = 58 /\ \A j \in 1..i - 1 : text[j] # 58
    IN <<SubSeq(text, 1, colon - 1), SubSeq(text, colon + 1, Len(text))>>

\* the two headers of the examples give (user, pass)
AuthExamples ==
    srv.authorization \in {Some(<<66, 97, 115, 105, 99, 32, 100, 88, 78, 108, 99, 106, 112, 119, 89, 88, 78, 122>>),
                           Some(<<65, 87, 83, 52, 45, 72, 77, 65, 67, 45, 83,
                                  72, 65, 50, 53, 54, 32, 67, 114, 101, 100,
                                  101, 110, 116, 105, 97, 108, 61, 100, 88,
                                  78, 108, 99, 106, 112, 119, 89, 88, 78,
                                  122, 47, 102, 111, 111>>)}
        => srv.auth = Ok(RegistryAuth_Basic(<<117, 115, 101, 114>>, <<112, 97, 115, 115>>))

\* C16 as stated: no header gives anonymous; a header of either grammar
\* whose group decodes to text with a ':' gives the text before the first
\* ':' as username and the text after it as password.
C16_SplitAtFirstColon ==
    srv.pc = "extracted"
        => /\ srv.authorization = NoValue => srv.auth = Ok(RegistryAuth_Anonymous)
           /\ AuthExamples
           /\ (Credentials # NoValue /\ \E i \in DOMAIN Credentials.some : Credentials.some[i] = 58)
                  => LET c == SplitAtFirstColon(Credentials.some)
                     IN srv.auth = Ok(RegistryAuth_Basic(c[1], c[2]))

\* C16, amended: the same for texts with something before the first ':' and
\* after it something that holds no line feed.
C16_SplitWhenBothParts ==
    srv.pc = "extracted"
        => /\ srv.authorization = NoValue => srv.auth = Ok(RegistryAuth_Anonymous)
           /\ AuthExamples
           /\ (Credentials # NoValue /\ \E i \in DOMAIN Credentials.some : Credentials.some[i] = 58)
                  => LET c == SplitAtFirstColon(Credentials.some)
                     IN (c[1] # <<>> /\ c[2] # <<>> /\ \A i \in DOMAIN c[2] : c[2][i] # 10)
                            => srv.auth = Ok(RegistryAuth_Basic(c[1], c[2]))

\* "a:b:c" was sent, and parsed
C16_Witness ==
    /\ srv.pc = "extracted"
    /\ Credentials = Some(<<97, 58, 98, 58, 99>>)
    /\ srv.auth.ok

\* C17 as stated: a header that does not parse is reported as
\* InvalidAuthorization.
C17_AlwaysInvalidAuthorization ==
    (srv.pc = "extracted" /\ srv.authorization # NoValue /\ ~srv.auth.ok)
        => srv.auth.err.kind = "InvalidAuthorization"

\* C17, amended: a header that does not parse is reported as a 400 error,
\* InvalidAuthorization when it is of neither grammar or its text has no
\* username:password shape, Decode when its group is not base64, FromUtf8
\* when the bytes are not UTF-8, HeaderToStr when the header is no text.
C17_ParseFailureKinds ==
    (srv.pc = "extracted" /\ srv.authorization # NoValue /\ ~srv.auth.ok)
        => LET h == srv.authorization.some
               kind == srv.auth.err.kind
           IN /\ code(kind) = 400
              /\ kind \in {"InvalidAuthorization", "Decode", "FromUtf8",
                           "HeaderToStr"}
              /\ h \in {<<66, 101, 97, 114, 101, 114, 32, 100, 84, 112, 119>>,
                        <<65, 87, 83, 52, 45, 72, 77, 65, 67, 45, 83,
                                  72, 65, 50, 53, 54, 32, 67, 114, 101, 100,
                                  101, 110, 116, 105, 97, 108, 61, 63, 63,
                                  63>>,
                        <<66, 97, 115, 105, 99, 32, 100, 81, 61, 61>>, <<66, 97, 115, 105, 99, 32, 100, 84, 111, 61>>}
                    => kind = "InvalidAuthorization"
              /\ h \in {<<66, 97, 115, 105, 99, 32, 63, 63, 63>>, <<66, 97, 115, 105, 99, 32, 100, 82, 61, 61>>,
                        <<66, 97, 115, 105, 99, 32, 100, 84, 112>>}
                    => kind = "Decode"
              /\ h = <<66, 97, 115, 105, 99, 32, 47, 122, 112, 119>> => kind = "FromUtf8"
              /\ h = <<66, 97, 115, 105, 99, 32, 233>> => kind = "HeaderToStr"

\* a group with bits left over was sent, and refused
C17_Witness ==
    /\ srv.pc = "extracted"
    /\ srv.authorization = Some(<<66, 97, 115, 105, 99, 32, 100, 82, 61, 61>>)
    /\ srv.auth = Err([kind |-> "Decode"])

--------------------------------------------------------------------------
(* Properties of the gateway (ServerSpec).                                  *)

NixCacheInfo == <<110, 105, 120, 45, 99, 97, 99, 104, 101, 45, 105, 110, 102, 111>>

\* the request was accepted, and it is anonymous while upstream_anonymous is
\* off or its key matches ignore_upstream
IsAnonymousSkip ==
    /\ srv.authorization = NoValue
    /\ ~srv.options.upstream_anonymous

IsIgnoredSkip ==
    /\ srv.authorization # Some(<<66, 97, 115, 105, 99, 32, 63, 63, 63>>)
    /\ \/ srv.location.key = srv.options.ignore_upstream.literal
       \/ /\ ~srv.options.ignore_upstream.anchored
          /\ is_match(srv.options.ignore_upstream, srv.location.key)

\* no HEAD was sent to an upstream
NoUpstreamContacted == srv.heads = <<>>

\* the handler went on to the lookup in the registry
ProceedsToRegistry ==
    /\ srv.pc = "probed" => srv.checked = Ok(NoValue)
    /\ srv.pc \in {"registry", "responded"} => call[Client].op = "get"

\* C18 as stated: an anonymous request while upstream_anonymous is off, and
\* a request for a key that ignore_upstream matches, contact no upstream and
\* go on to the registry.
C18_SkipThenRegistry ==
    (srv.pc \notin {"request", "extracted"}
         /\ (IsAnonymousSkip \/ IsIgnoredSkip))
        => NoUpstreamContacted /\ ProceedsToRegistry

\* C18, amended: they contact no upstream, and with max_retry >= 1 they go
\* on to the registry.
C18_SkipThenRegistryIfRetry ==
    (srv.pc \notin {"request", "extracted"}
         /\ (IsAnonymousSkip \/ IsIgnoredSkip))
        => /\ NoUpstreamContacted
           /\ ropts.max_retry >= 1 => ProceedsToRegistry

\* a GET for nix-cache-info with credentials, upstreams configured and
\* ^nix-cache-info$ ignored, answered from the registry
C18_Witness ==
    /\ srv.pc = "responded"
    /\ srv.method = "GET"
    /\ srv.location.key = NixCacheInfo
    /\ srv.options.ignore_upstream.anchored
    /\ srv.options.upstream # <<>>
    /\ srv.authorization \notin {NoValue}
    /\ ropts.max_retry >= 2
    /\ srv.heads = <<>>
    /\ call[Client].op = "get"

\* the HEADs are sent to the upstreams in the configured order, no upstream
\* left out before the last one contacted
InConfiguredOrder ==
    /\ srv.heads # <<>> => srv.heads[1].idx = 1
    /\ \A i \in 1..Len(srv.heads) - 1 :
           srv.heads[i + 1].idx \in {srv.heads[i].idx, srv.heads[i].idx + 1}
    /\ \A i \in DOMAIN srv.heads :
           srv.heads[i].url = [base |-> srv.options.upstream[srv.heads[i].idx],
                               key |-> srv.location.key]

\* a 404 is the last HEAD its upstream gets
NotFoundAdvances ==
    \A i \in DOMAIN srv.heads : \A j \in DOMAIN srv.heads :
        (srv.heads[i].status = "404" /\ i < j)
            => srv.heads[j].idx > srv.heads[i].idx

\* a 200 is the last HEAD of the request, the registry is not called, and
\* the response is the redirect to the URL that answered
FoundRedirects ==
    \A i \in DOMAIN srv.heads :
        srv.heads[i].status = "200"
            => /\ i = Len(srv.heads)
               /\ call[Client] = IdleCall
               /\ srv.pc \in {"probed", "responded"}
               /\ srv.pc = "responded"
                      => /\ srv.response.status = 302
                         /\ srv.response.location =
                                Some([base |-> srv.options.upstream[srv.heads[i].idx],
                                      key |-> srv.location.key])

\* C19: upstreams are probed in the configured order, a 404 moves on to the
\* next upstream without a retry, and the first 200 ends the probe with a
\* 302 to that upstream's URL, nothing being contacted after it.
C19_ProbeOrder == InConfiguredOrder /\ NotFoundAdvances /\ FoundRedirects

\* the first upstream failed twice, the second answered 200: redirected
C19_Witness ==
    /\ srv.pc = "responded"
    /\ Len(srv.heads) = 3
    /\ srv.heads[1].status = "500"
    /\ srv.heads[2].status = "404"
    /\ srv.heads[3].status = "200"
    /\ srv.heads[3].idx = 2
    /\ srv.response.status = 302

\* C20: a GET that was not redirected and whose lookup in the registry
\* yielded none is answered with 404 and the NoSuchKey body.
C20_GetNoneIsNoSuchKey ==
    (srv.pc = "responded" /\ srv.method = "GET"
         /\ call[Client].op = "get" /\ call[Client].ret = Ok(NoValue))
        => /\ srv.response.status = 404
           /\ srv.response.body = "<Error><Code>NoSuchKey</Code></Error>"
           /\ srv.response.location = NoValue

\* a GET went through the probe (a 404 from the only upstream) and the
\* registry (a not-found for its tag), and was answered
C20_Witness ==
    /\ srv.pc = "responded"
    /\ srv.method = "GET"
    /\ Len(srv.heads) = 1
    /\ srv.heads[1].status = "404"
    /\ call[Client].pulls # <<>>
    /\ call[Client].ret = Ok(NoValue)
    /\ srv.response.status = 404

\* the kinds of Error
ErrorKinds ==
    {"Http", "Reqwest", "Io", "Rusqlite", "DuplicatedPathInfo",
     "InvalidSignature", "EarlyStop", "Join", "InvalidNarSize",
     "NarSizeNotMatch", "RetryAllFails", "PushFailed", "Nar", "PathRejection",
     "UpstreamCanNotBeBase", "Decode", "TagToKey", "InvalidTag", "FromUtf8",
     "HeaderToStr", "InvalidAuthorization", "OciDistribution",
     "InvalidLayerCount", "InvalidLayerMediaType", "NoLayerAnnotations",
     "NoLayerAnnotationKey", "ReferenceNotFound", "IllFormedPath",
     "InvalidQueryString", "InvalidOsString", "NoPathInfo", "InvalidStorePath",
     "InvalidSigningKey", "InvalidMaxRetry", "NixDbFolderNotWritable",
     "Ed25519", "InvalidSigningKeyEnv", "SignatureMismatch"}

\* the 404 answers of GET and HEAD carry the NoSuchKey body
NotFoundAnswersNoSuchKey ==
    (srv.pc = "responded" /\ srv.response.status = 404)
        => srv.response.body = "<Error><Code>NoSuchKey</Code></Error>"

\* every kind of status 404 is rendered with the NoSuchKey body
NotFoundKindsNoSuchKey ==
    \A kind \in ErrorKinds :
        code(kind) = 404
            => into_response([kind |-> kind]).body
                   = "<Error><Code>NoSuchKey</Code></Error>"

\* C21: every 404 the gateway renders carries the NoSuchKey body, for GET
\* and HEAD and for every kind of status 404.
C21_NotFoundBody == NotFoundAnswersNoSuchKey /\ NotFoundKindsNoSuchKey

--------------------------------------------------------------------------
(* Properties of the signature merge (PrologueSpec): merge as push_one      *)
(* calls it, on the sigs of the DB row and the fresh signature.             *)

\* the list, the payload and the new signature of the merge for id
MergeList(id) == IF db[id].sigs = NoValue THEN <<>> ELSE db[id].sigs.some
MergePayload(id) == PathFingerprint(id, Len(NarData(id)))
MergeNew(id) ==
    [name |-> "cache-1",
     signature |-> [key |-> "k1", data |-> MergePayload(id), noise |-> 0]]

\* the entries of the list under the name of the new signature
SameName(id) ==
    {i \in DOMAIN MergeList(id) : MergeList(id)[i].name = MergeNew(id).name}

\* the entry is a signature of the payload by the pusher's key
IsOfPayload(id, s) ==
    s.signature.key = "k1" /\ s.signature.data = MergePayload(id)

\* the closure got as far as the merge
Merged(id) ==
    /\ task[id].joined # NoValue
    /\ \/ task[id].joined.ok
       \/ task[id].joined.err.kind \notin {"Sqlite", "Io", "NarSizeNotMatch"}

\* the list after the merge
MergedSigs(id) == task[id].joined.val[2].item.data.sigs

\* C22: when the list holds the new signature under its name (and nothing
\* else under it) the merge succeeds and leaves the list as it was, and
\* merging once more changes nothing; when every entry of the name is a
\* signature of the payload and one differs from the new signature, the
\* merge returns SignatureMismatch.
C22_MergeExisting ==
    \A id \in Ids :
        Merged(id) =>
            /\ (SameName(id) # {}
                    /\ \A i \in SameName(id) : MergeList(id)[i] = MergeNew(id))
                   => /\ task[id].joined.ok
                      /\ MergedSigs(id) = MergeList(id)
            /\ task[id].joined.ok
                   => merge(MergedSigs(id), key_pair, MergePayload(id),
                            MergeNew(id)) = Ok(MergedSigs(id))
            /\ ((\A i \in SameName(id) : IsOfPayload(id, MergeList(id)[i]))
                    /\ \E i \in SameName(id) : MergeList(id)[i] # MergeNew(id))
                   => task[id].joined = Err([kind |-> "SignatureMismatch"])

\* a row with our signature and, after it, another signature of ours over
\* the same payload: the merge was refused
C22_Witness ==
    \E id \in Ids :
        /\ Merged(id)
        /\ Len(MergeList(id)) = 2
        /\ MergeList(id)[1] = MergeNew(id)
        /\ IsOfPayload(id, MergeList(id)[2])
        /\ MergeList(id)[2].signature.noise = 1
        /\ task[id].joined = Err([kind |-> "SignatureMismatch"])

\* C23: when the list holds no entry of the new signature's name the merge
\* succeeds and gives the list with the new signature appended, the entries
\* it held kept as they were, in their order, verified or not.
C23_MergeAppends ==
    \A id \in Ids :
        (Merged(id) /\ SameName(id) = {})
            => /\ task[id].joined.ok
               /\ Len(MergedSigs(id)) = Len(MergeList(id)) + 1
               /\ \A i \in DOMAIN MergeList(id) :
                      MergedSigs(id)[i] = MergeList(id)[i]
               /\ MergedSigs(id)[Len(MergedSigs(id))] = MergeNew(id)

\* a row with two signatures of another name, the second over a stale
\* payload: ours was appended
C23_Witness ==
    \E id \in Ids :
        /\ Merged(id)
        /\ Len(MergeList(id)) = 2
        /\ SameName(id) = {}
        /\ MergeList(id)[2].signature.data # MergePayload(id)
        /\ task[id].joined.ok
        /\ Len(MergedSigs(id)) = 3

--------------------------------------------------------------------------
(* Properties of the plan of a push (FilterSpec, ClosureSpec).              *)

\* the names of the signatures in the row of id
SigNamesOf(id) ==
    IF db[id].sigs = NoValue THEN {}
    ELSE {db[id].sigs.some[i].name : i \in DOMAIN db[id].sigs.some}

\* no name is excluded, and --already-signed or none is the pusher's
Admitted(id) ==
    /\ SigNamesOf(id) \cap popts.excluded_signing_key_pattern.matches = {}
    /\ popts.already_signed \/ "cache-1" \notin SigNamesOf(id)

\* the ids whose push_one was created
Started == {id \in Ids : task[id].pc # "queued"}

\* C24: the filter admits an id exactly when no name of its signatures
\* matches the excluded pattern and, unless --already-signed, none is the
\* pusher's; an id whose sigs is null is admitted; only admitted ids get a
\* push_one.
C24_FilterAdmits ==
    /\ \A id \in filtered \cup Started : id \in plan.id_closures /\ Admitted(id)
    /\ plan.pc = "push"
           => /\ filtered \cup Started = {id \in plan.id_closures : Admitted(id)}
              /\ \A id \in plan.id_closures :
                     db[id].sigs = NoValue => id \in filtered \cup Started

\* the first id was given and admitted, the second lies in its closure and
\* is signed by the pusher already: the push_one of the first was created,
\* and there is no other
C24_Witness ==
    /\ plan.pc = "push"
    /\ plan.ids = {1}
    /\ plan.id_closures = Ids
    /\ ~popts.already_signed
    /\ "cache-1" \in SigNamesOf(2)
    /\ db[1].sigs # NoValue
    /\ filtered = {}
    /\ Started = {1}

\* the ids reachable from S through refs
RECURSIVE Reachable(_, _)
Reachable(S, refs) ==
    LET next == S \cup UNION {refs[id] : id \in S}
    IN IF next = S THEN S ELSE Reachable(next, refs)

\* what compute_closure returned is the set of the ids reachable
ClosureExact ==
    (plan.pc \in {"filter", "push"} /\ ~popts.no_closure)
        => plan.id_closures = Reachable(plan.ids, plan.refs)

--------------------------------------------------------------------------
(* More properties of the tag codec (CodecSpec).                            *)

\* a-z, A-Z, 0-9, '-' and '.'
IsPlain(c) ==
    \/ c \in 97..122 \/ c \in 65..90 \/ c \in 48..57
    \/ c \in {45, 46}

\* C26: the output of encode does not start with '-' or '.', a '-' or '.'
\* at the start of the key being escaped ("_J_", "_K_") and those after it
\* emitted as they are, and every character of the output is of
\* [a-zA-Z0-9_.-].
C26_NoLeadingDashDot ==
    cpc = "encoded" =>
        /\ encoded # <<>> => encoded[1] \notin {45, 46}
        /\ \A i \in DOMAIN encoded : IsPlain(encoded[i]) \/ encoded[i] = 95
        /\ (input # <<>> /\ \A i \in DOMAIN input : IsPlain(input[i]))
               => encoded = (IF input[1] = 45 THEN <<95, 74, 95>>
                             ELSE IF input[1] = 46 THEN <<95, 75, 95>>
                             ELSE <<input[1]>>) \o Tail(input)

\* "--a" has been encoded as "_J_-a"
C26_Witness ==
    /\ cpc = "encoded"
    /\ input = <<45, 45, 97>>
    /\ encoded = <<95, 74, 95, 45, 97>>

\* the number of '_' of tag before position i
MarkersBefore(tag, i) == Cardinality({j \in 1..(i - 1) : tag[j] = 95})

\* the escapes of a tag: the first '_' closes with the second, the third
\* with the fourth, ...
Escapes(tag) ==
    {p \in (DOMAIN tag) \X (DOMAIN tag) :
        /\ p[1] < p[2]
        /\ tag[p[1]] = 95 /\ tag[p[2]] = 95
        /\ MarkersBefore(tag, p[1]) % 2 = 0
        /\ MarkersBefore(tag, p[2]) = MarkersBefore(tag, p[1]) + 1}

\* the value of the digits tag[i..j] in base 64, or -1 once it is above
\* 0x10FFFF
RECURSIVE RunValue(_, _, _, _)
RunValue(tag, i, j, acc) ==
    IF acc < 0 \/ acc > 1114111 THEN -1
    ELSE IF i > j THEN acc
    ELSE RunValue(tag, i + 1, j, acc * 64 + SymbolIndex(tag[i]))

Unterminated(tag) == MarkersBefore(tag, Len(tag) + 1) % 2 = 1

NonSymbolInEscape(tag) ==
    \E i \in DOMAIN tag :
        /\ MarkersBefore(tag, i) % 2 = 1
        /\ tag[i] # 95 /\ ~IsPlain(tag[i])

NotAScalar(tag) ==
    \E p \in Escapes(tag) :
        /\ \A i \in (p[1] + 1)..(p[2] - 1) : IsPlain(tag[i])
        /\ LET v == RunValue(tag, p[1] + 1, p[2] - 1, 0)
           IN v < 0 \/ v \in 55296..57343

OutsideAlphabet(tag) ==
    \E i \in DOMAIN tag : tag[i] # 95 /\ ~IsPlain(tag[i])

\* C27: decode of a tag with an unclosed '_', with a character between two
\* markers that is not a symbol, with digits between two markers whose value
\* is a surrogate or above 0x10FFFF (a value that does not fit 32 bits
\* included), or with a character that is neither of [a-zA-Z0-9.-] nor '_',
\* is Err(InvalidTag(tag)): no part of a decoded key is returned.
C27_DecodeRejects ==
    (/\ cpc = "decoded"
     /\ \/ Unterminated(input)
        \/ NonSymbolInEscape(input)
        \/ NotAScalar(input)
        \/ OutsideAlphabet(input))
        => decoded.res = [ok |-> FALSE,
                          err |-> [kind |-> "InvalidTag", tag |-> input]]

\* "_dw0_", the surrogate U+D800, has been rejected
C27_Witness ==
    /\ cpc = "decoded"
    /\ input = <<95, 100, 119, 48, 95>>
    /\ NotAScalar(input)
    /\ ~decoded.res.ok

--------------------------------------------------------------------------
(* More properties of the registry adapter (RegistrySpec).                  *)

\* the pulls of the reference at index m among the first i pulls
PullsUpTo(c, m, i) == {k \in PullsOf(c, m) : k <= i}

\* the index a lookup is at after its i-th pull: that of the next pull, or
\* the one the loops stand at
IndexAfter(c, i) == IF i < Len(c.pulls) THEN c.pulls[i + 1].idx ELSE c.idx

\* C28: get_layer_info pulls the manifest of each entry of the reference
\* list at most max_retry - 1 times; after a not-found answer (manifest not
\* found, or a registry error with manifest-unknown codes only) the entry is
\* not pulled again and the lookup goes on with the next entry; after any
\* other failure the same entry is pulled again while it has attempts left.
C28_PullAttempts ==
    LET c == call[Client]
    IN c.op = "get" =>
        /\ \A m \in 1..Len(c.references) :
               Cardinality(PullsOf(c, m)) <= ropts.max_retry - 1
        /\ \A i \in DOMAIN c.pulls :
               LET m == c.pulls[i].idx
                   used == Cardinality(PullsUpTo(c, m, i))
               IN /\ c.pulls[i].answer = "not_found" =>
                         /\ \A k \in PullsOf(c, m) : k <= i
                         /\ IndexAfter(c, i) = m + 1
                         /\ i = Len(c.pulls) => c.pc # "pulled"
                  /\ (c.pulls[i].answer = "error"
                          /\ used < ropts.max_retry - 1) =>
                         /\ IndexAfter(c, i) = m
                         /\ i = Len(c.pulls) => c.pc = "pull"

\* the first entry was answered with not-found at its first attempt while
\* it had another left, and the second entry was pulled twice, the first
\* time with a failure
C28_Witness ==
    LET c == call[Client]
    IN /\ c.op = "get"
       /\ ropts.max_retry = 3
       /\ Len(c.pulls) = 3
       /\ c.pulls[1].idx = 1 /\ c.pulls[1].answer = "not_found"
       /\ c.pulls[2].idx = 2 /\ c.pulls[2].answer = "error"
       /\ c.pulls[3].idx = 2

\* the annotation of the content type
ContentTypeOf(layer) ==
    {kv[2] : kv \in {x \in layer.annotations.some :
                        x[1] = "com.linyinfeng.oranc.content.type"}}

\* the error the claim gives for a manifest, "none" for a manifest that
\* passes the four checks
ManifestError(manifest) ==
    IF Len(manifest.layers) # 1 THEN "InvalidLayerCount"
    ELSE IF manifest.layers[1].media_type # "application/octet-stream"
    THEN "InvalidLayerMediaType"
    ELSE IF manifest.layers[1].annotations = NoValue THEN "NoLayerAnnotations"
    ELSE IF ContentTypeOf(manifest.layers[1]) = {} THEN "NoLayerAnnotationKey"
    ELSE "none"

\* C29: a get_layer_info whose pull succeeded returns a LayerInfo only for a
\* manifest of one layer of media type application/octet-stream with the
\* content-type annotation, and otherwise the first of InvalidLayerCount,
\* InvalidLayerMediaType, NoLayerAnnotations, NoLayerAnnotationKey that
\* applies, with no pull of a later reference; the LayerInfo holds the
\* reference that was pulled, the digest of layer 0 and the annotated
\* content type.
C29_LayerChecks ==
    LET c == call[Client]
        last == c.pulls[Len(c.pulls)]
    IN (c.op = "get" /\ c.pc = "done" /\ c.pulls # <<>>
            /\ last.answer = "ok") =>
        LET manifest == store[last.reference.tag]
        IN /\ \A i \in 1..(Len(c.pulls) - 1) : c.pulls[i].answer # "ok"
           /\ IF ManifestError(manifest) = "none"
              THEN /\ c.ret.ok
                   /\ c.ret.val # NoValue
                   /\ c.ret.val.some.reference = c.references[last.idx]
                   /\ c.ret.val.some.reference = last.reference
                   /\ c.ret.val.some.digest = manifest.layers[1].digest
                   /\ c.ret.val.some.content_type
                          \in ContentTypeOf(manifest.layers[1])
              ELSE /\ ~c.ret.ok
                   /\ c.ret.err.kind = ManifestError(manifest)

\* a lookup ended with NoLayerAnnotationKey on the manifest of its first
\* reference, having a fallback it did not pull
C29_Witness ==
    LET c == call[Client]
    IN /\ c.op = "get" /\ c.pc = "done"
       /\ Len(c.references) > 1
       /\ Len(c.pulls) = 1 /\ c.pulls[1].answer = "ok"
       /\ ~c.ret.ok /\ c.ret.err.kind = "NoLayerAnnotationKey"

\* C30: a put without dry_run pushes at most max_retry - 1 times; it
\* returns Ok(()) exactly when its last push succeeded, and no push follows
\* a push that succeeded; it returns RetryAllFails only after every push
\* failed, with the errors of the pushes, one each, in the order of the
\* pushes.
C30_PutAttempts ==
    LET c == call[Client]
    IN (c.op = "put" /\ ~ropts.dry_run /\ ropts.max_retry >= 1) =>
        /\ Len(c.pushes) <= ropts.max_retry - 1
        /\ Len(c.answers) = Len(c.pushes)
        /\ \A i \in 1..(Len(c.answers) - 1) : c.answers[i] # "Ok"
        /\ (c.answers # <<>> /\ c.answers[Len(c.answers)] = "Ok")
               => c.pc = "done" /\ c.ret = [ok |-> TRUE, val |-> Unit]
        /\ (c.pc = "done" /\ c.ret.ok)
               => c.answers # <<>> /\ c.answers[Len(c.answers)] = "Ok"
        /\ (c.pc = "done" /\ ~c.ret.ok) =>
               /\ c.ret.err.kind = "RetryAllFails"
               /\ Len(c.answers) = ropts.max_retry - 1
               /\ \A i \in DOMAIN c.answers : c.answers[i] # "Ok"
               /\ c.ret.err.errors = c.answers

\* a put returned RetryAllFails after two pushes that failed differently
C30_Witness ==
    LET c == call[Client]
    IN /\ c.op = "put" /\ c.pc = "done" /\ ~ropts.dry_run
       /\ ~c.ret.ok /\ c.ret.err.kind = "RetryAllFails"
       /\ Len(c.pushes) = 2
       /\ c.answers[1] # c.answers[2]

--------------------------------------------------------------------------
(* Properties of the pusher when a row gives a wrong narSize (NarSizeSpec). *)

\* the push_one of id returned the error of this kind
EndedWith(id, kind) ==
    /\ task[id].pc = "finished"
    /\ ~task[id].result.ok
    /\ task[id].result.err.kind = kind

\* a push_one returned NarSizeNotMatch and none an error of another kind
OnlyNarSizeNotMatch ==
    /\ \E id \in Ids : EndedWith(id, "NarSizeNotMatch")
    /\ \A id \in Ids :
           (task[id].pc = "finished" /\ ~task[id].result.ok)
               => task[id].result.err.kind \in {"NarSizeNotMatch", "EarlyStop"}

\* C31 as claimed: when a path fails with NarSizeNotMatch (and no path with
\* another error) the push_one of no other path returns EarlyStop: each
\* still runs its prologue and its uploads.
C31_OthersStillPushed ==
    OnlyNarSizeNotMatch => \A id \in Ids : ~EndedWith(id, "EarlyStop")

\* C31 amended: a path that fails with NarSizeNotMatch issues no put and
\* sets `failed` as every error other than EarlyStop does; a push_one polled
\* first after that returns EarlyStop without a DB read or a put, one that
\* had passed its check before runs on and never returns EarlyStop; push
\* returns PushFailed.
C31_NarSizeSetsFailed ==
    /\ \A id \in Ids :
           EndedWith(id, "NarSizeNotMatch")
               => /\ failed
                  /\ task[id].puts = <<>>
                  /\ call[id].pushes = <<>>
                  /\ filtered # {} => ~not_failed.ok
    /\ \A id \in Ids :
           EndedWith(id, "EarlyStop")
               => /\ task[id].flag_at_read = NoValue
                  /\ task[id].puts = <<>>
                  /\ call[id].pushes = <<>>
    /\ \A id \in Ids :
           task[id].flag_at_read # NoValue => ~EndedWith(id, "EarlyStop")
    /\ (pushret # NoValue /\ \E id \in Ids : EndedWith(id, "NarSizeNotMatch"))
           => pushret = [ok |-> FALSE, err |-> [kind |-> "PushFailed"]]

\* one path failed with NarSizeNotMatch, another returned EarlyStop, a
\* path with a sound row: push has returned
C31_Witness ==
    /\ pushret # NoValue
    /\ OnlyNarSizeNotMatch
    /\ \E id \in Ids :
           /\ EndedWith(id, "EarlyStop")
           /\ db[id] = SoundDb[id]

--------------------------------------------------------------------------
(* Properties of the stream of push_one futures (Spec).                     *)

\* the push_one futures polled so far
Polled == {id \in Ids : task[id].pc # "queued"}

\* the ids whose push_one has returned
Returned == {id \in Ids : task[id].pc = "finished"}

\* C32: never more than `parallel` push_one futures are in flight; a
\* push_one is polled for the first time only in a state with fewer than
\* `parallel` in flight, so with `parallel` in flight only after one of them
\* has returned; the futures in flight return in any order, and a step of
\* one leaves the others as they are.
C32_BoundedParallel ==
    /\ [](Cardinality(InFlight) <= popts.parallel)
    /\ [][Polled' # Polled => /\ Cardinality(InFlight) < popts.parallel
                              /\ Cardinality(Polled' \ Polled) = 1]_vars
    /\ [][\A id \in Ids :
            (task'[id] # task[id] \/ call'[id] # call[id])
                => \A other \in Ids \ {id} :
                       task'[other] = task[other] /\ call'[other] = call[other]]_vars

\* `parallel` futures are uploading and an id is waiting for one to return
C32_Witness ==
    /\ Cardinality(InFlight) = popts.parallel
    /\ \A id \in InFlight : task[id].pc = "upload"
    /\ filtered # {}

--------------------------------------------------------------------------
(* More properties of the gateway (ServerSpec).                             *)

\* the HEADs sent to the upstream at index m, among the first i
HeadsUpTo(m, i) == {k \in 1..i : srv.heads[k].idx = m}

\* the probe is over
Probed == srv.pc \in {"probed", "registry", "responded"}

\* C33: an upstream gets at most max_retry - 1 HEADs; after an answer whose
\* status is neither 200 nor 404 the next HEAD goes to the same upstream
\* while it has attempts left, and to the next upstream once it has none;
\* a probe in which no upstream answered 200 (and no HEAD failed in
\* transport) yields none, and the handler calls get_layer_info.
C33_ProbeRetries ==
    /\ \A m \in 1..Len(srv.options.upstream) :
           \/ HeadsUpTo(m, Len(srv.heads)) = {}
           \/ Cardinality(HeadsUpTo(m, Len(srv.heads))) <= ropts.max_retry - 1
    /\ \A i \in DOMAIN srv.heads :
           LET m == srv.heads[i].idx
               used == Cardinality(HeadsUpTo(m, i))
           IN srv.heads[i].status = "500" =>
                  IF used < ropts.max_retry - 1
                  THEN IF i < Len(srv.heads) THEN srv.heads[i + 1].idx = m
                       ELSE srv.pc = "probe" /\ srv.idx = m
                  ELSE IF i < Len(srv.heads) THEN srv.heads[i + 1].idx = m + 1
                       ELSE \/ srv.pc = "probe" /\ srv.idx \in {m, m + 1}
                            \/ Probed /\ m = Len(srv.options.upstream)
    /\ (Probed /\ srv.heads # <<>>
            /\ \A i \in DOMAIN srv.heads : srv.heads[i].status \in {"404", "500"})
           => /\ srv.checked = [ok |-> TRUE, val |-> NoValue]
              /\ srv.pc \in {"registry", "responded"}
                     => /\ call[Client].op = "get"
                        /\ call[Client].location = srv.location

\* two upstreams answered 500 twice each, and the request was answered
\* from the registry
C33_Witness ==
    /\ srv.pc = "responded"
    /\ ropts.max_retry = 3
    /\ Len(srv.heads) = 4
    /\ \A i \in DOMAIN srv.heads : srv.heads[i].status = "500"
    /\ srv.heads[2].idx = 1 /\ srv.heads[3].idx = 2
    /\ call[Client].op = "get" /\ call[Client].pc = "done"
    /\ srv.response.status = 200

--------------------------------------------------------------------------
(* Properties of push from its first line (InputSpec).                      *)

\* where the links lead from p: the first path that is no symlink, within
\* n steps, or NoValue
RECURSIVE FinalTarget(_, _, _)
FinalTarget(files, p, n) ==
    IF files[p].kind # "symlink" THEN Some(p)
    ELSE IF n = 0 THEN NoValue
    ELSE FinalTarget(files, files[p].target, n - 1)

\* the links from p end in the store
LeadsIntoStore(files, p) ==
    LET t == FinalTarget(files, p, Cardinality(InputPaths))
    IN /\ files[p].kind = "symlink"
       /\ t # NoValue
       /\ t.some.dir = "/nix/store"
       /\ files[t.some].kind = "dir"

\* C34 as claimed: canonicalize returns an input under `<store_dir>/` as it
\* is; for a symlink whose links end at a path under the store dir it
\* returns that path; it returns InvalidStorePath only when the links end
\* at a path that is no symlink and not under the store dir; whatever it
\* returns is under the store dir.
C34_Canonicalize ==
    \A i \in DOMAIN plan.rets :
        LET line == plan.rets[i].line
            ret == plan.rets[i].ret
            t == FinalTarget(plan.files, line, Cardinality(InputPaths))
        IN /\ line.dir = "/nix/store" => ret = [ok |-> TRUE, val |-> line]
           /\ (line.dir # "/nix/store" /\ LeadsIntoStore(plan.files, line))
                  => ret = [ok |-> TRUE, val |-> t.some]
           /\ (~ret.ok /\ ret.err.kind = "InvalidStorePath")
                  => /\ t # NoValue
                     /\ plan.files[t.some].kind = "dir"
                     /\ t.some.dir # "/nix/store"
           /\ ret.ok => ret.val.dir = "/nix/store"

\* C38 as claimed: every call of canonicalize returns, with a path or with
\* an error, whatever the links are: a link to itself and links in a circle
\* included.
C38_CanonicalizeReturns ==
    (plan.pc = "canonicalize") ~> (plan.pc # "canonicalize")

\* the kinds of error push returns before its stream of tasks
PlanningErrors ==
    {"Io", "InvalidStorePath", "NoPathInfo", "DuplicatedPathInfo",
     "Rusqlite", "InvalidSigningKeyEnv"}

\* no push_one was polled, no registry call made, the registry untouched
NothingPushed ==
    /\ \A id \in Ids : task[id] = IdleTask /\ call[id] = IdleCall
    /\ store = [t \in {} |-> NoValue]

\* the rows ValidPaths holds of a path
RowsOf(p) == {id \in Ids : db[id].path = p}

\* C40: a line that cannot be canonicalized, an input path with no row or
\* with more than one, a query of the closure or of the filter that fails,
\* a signing key that cannot be loaded: push returns that error, and has
\* polled no push_one and issued no put, then or later; it goes past the
\* lines only with every line canonicalized and past the lookup only with
\* one row for every input path.
C40_FailsBeforeTasks ==
    /\ \A i \in DOMAIN plan.rets :
           ~plan.rets[i].ret.ok
               => /\ i = Len(plan.rets)
                  /\ plan.pc = "returned"
                  /\ pushret = plan.rets[i].ret
    /\ plan.pc \in {"ids", "closure", "filter", "push"}
           => \A p \in plan.input_paths : Cardinality(RowsOf(p)) = 1
    /\ pushret # NoValue
           => /\ ~pushret.ok
              /\ pushret.err.kind \in PlanningErrors
              /\ plan.pc = "returned"
              /\ NothingPushed
    /\ (\E id \in Ids : task[id] # IdleTask)
           => pushret = NoValue /\ plan.pc = "push"

\* push returned the error of a query of the filter, after it had admitted
\* an id
C40_Witness ==
    /\ plan.pc = "returned"
    /\ pushret = [ok |-> FALSE, err |-> [kind |-> "Rusqlite"]]
    /\ filtered # {}
    /\ plan.pending # {}
    /\ NothingPushed

--------------------------------------------------------------------------
(* Further properties of the registry adapter (RegistrySpec).               *)

\* C35 as claimed: with dry_run off and max_retry >= 1 (1 included) a put
\* that returns RetryAllFails has issued a push that failed, and the list
\* of errors it carries is not empty.
C35_RetryAllFailsNotEmpty ==
    LET c == call[Client]
    IN (c.op = "put" /\ c.pc = "done" /\ ~ropts.dry_run
            /\ ropts.max_retry >= 1
            /\ ~c.ret.ok /\ c.ret.err.kind = "RetryAllFails")
           => /\ c.pushes # <<>>
              /\ c.ret.err.errors # <<>>

\* C36 as claimed: what get_layer_info returns for a key is not changed by
\* a put to another key of the repository, whatever the encodings: a lookup
\* never returns the manifest that a put wrote for another key.
C36_ReadsIsolatedByKey ==
    LET c == call[Client]
    IN (c.op = "get" /\ c.pc = "done" /\ c.ret.ok /\ c.ret.val # NoValue)
           => store[c.ret.val.some.reference.tag].key
                  \in {NoValue, Some(c.location.key)}

--------------------------------------------------------------------------
(* Properties of the tag codec with fallbacks (CodecSpec).                 *)

\* C37 as claimed: for every encoding configuration and every key,
\* tag_to_key of any tag key_to_tag returned for the key (the main tag or
\* a fallback tag) returns the key.
C37_TagsDecodeToKey ==
    cpc = "back" => decoded.res = Ok(input)

\* the encodings in the order tag_to_key tries them
EncodingsOf(opts) == <<opts.tag_encoding>> \o opts.fallback_encodings

\* the positions of key_to_tag's result (1 is the main tag) whose tag no
\* encoding tried before the one that made it decodes to another key
Unshadowed ==
    LET tags == <<encoded.main>> \o encoded.fallbacks
        encs == EncodingsOf(options)
    IN {i \in 1..Len(tags) :
           \A j \in 1..(i - 1) :
               LET r == TagEncoding_tag_to_key(encs[j], tags[i])
               IN r.ok => r = Ok(input)}

\* C37 as amended: tag_to_key of the main tag returns the key, and
\* tag_to_key of a fallback tag returns the key unless an encoding tried
\* before the one that made the tag decodes it to another key.
C37_TagsDecodeToKeyUnlessShadowed ==
    cpc = "back" =>
        LET tags == <<encoded.main>> \o encoded.fallbacks
        IN /\ decoded.tag = encoded.main => decoded.res = Ok(input)
           /\ (\E i \in Unshadowed : tags[i] = decoded.tag)
                  => decoded.res = Ok(input)

\* C37 witness: with base32-dnssec as the main encoding and custom as a
\* fallback, the custom tag of "-", which base32-dnssec does not decode,
\* has been given to tag_to_key, which returned "-".
C37_Witness ==
    /\ cpc = "back"
    /\ options.tag_encoding = "Base32DNSSEC"
    /\ input = <<45>>
    /\ decoded.tag = encode(input)
    /\ decoded.tag # encoded.main
    /\ ~TagEncoding_tag_to_key("Base32DNSSEC", decoded.tag).ok
    /\ decoded.res = Ok(input)

\* C39: a transport failure of an upstream HEAD ends the probe at once
\* with a Reqwest error: the failed HEAD is the last one sent (no retry, no
\* later upstream), get_layer_info is not called, and the request is
\* answered with status 500.
C39_TransportErrorAborts ==
    \A i \in 1..Len(srv.heads) :
        srv.heads[i].status = "error"
            => /\ i = Len(srv.heads)
               /\ srv.pc \in {"probed", "responded"}
               /\ srv.checked = Err([kind |-> "Reqwest"])
               /\ call[Client] = IdleCall
               /\ srv.pc = "responded"
                      => /\ srv.response.status = 500
                         /\ srv.response.location = NoValue

\* C39 witness: with two upstreams and attempts left, the first HEAD to the
\* first upstream failed in transport, and the request was answered.
C39_Witness ==
    /\ srv.pc = "responded"
    /\ Len(srv.options.upstream) = 2
    /\ ropts.max_retry = MaxRetry
    /\ Len(srv.heads) = 1
    /\ srv.heads[1].status = "error"
    /\ srv.response.status = 500

==========================================================================
